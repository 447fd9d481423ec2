------------------------ MODULE EventProcessor_proofs ------------------------
(****************************************************************************)
(* Proofs about the services of EventServices: the writes and the polls of  *)
(* a relay's event processor, the conversations and invites of the Marmot   *)
(* service and the blind peering manager, whatever their events, filters,   *)
(* messages, syncs, handlers and bounds.                                    *)
(*                                                                          *)
(* Writes. The invariant is nearly inductive: it lacks that the task of a   *)
(* REQ that is writing is the first of its queue (Queued), without which    *)
(* it would take the task of another REQ out.                               *)
(*                                                                          *)
(* Invites. Its objects have no names in the code; the model gives them     *)
(* some and renames them at each step. Every part of the invariant is kept  *)
(* by renaming (Carries, IsRenamed), so a step only has to keep it of the   *)
(* hands it moves (RenameKeeps).                                            *)
(*                                                                          *)
(* Conversations. A cursor may pass a message only if it came in (Got),     *)
(* and nothing that is still to come may be behind it but what is late      *)
(* (Covered). That holds of the thread in memory, of a write under way,     *)
(* and of the file (Whole), and of what a sync has read and will pass       *)
(* (Syncs).                                                                 *)
(*                                                                          *)
(* Polls. While a filter is read, found holds all that the queries read so  *)
(* far asked for and nothing else (Reading); what the groups of a filter    *)
(* ask for together is what it matches, from the cursor on (GroupsGive,     *)
(* AsksMatch).                                                              *)
(*                                                                          *)
(* Blind peering. Each conjunct of MirrorsKeep has variables of its own;    *)
(* the tables and the handlers share theirs (Core).                         *)
(****************************************************************************)
EXTENDS EventServices, FiniteSetTheorems, WellFoundedInduction, TLAPS


\* A REQ is in the queue of its connection from its call until it is buffered
\* or written, and is the first there from when it found a writer.
Queued ==
    /\ \A e \in Entries : stage[e] \in {"reading", "called"} => e \in Req
    /\ \A e \in Entries : stage[e] = "verifying" => e \in Ev
    /\ \A e \in Req : stage[e] = "writing" => Runs(e)

IInv == TypeOK /\ Queued /\ BuffersKeep

\* What Accounted says of one buffer, with its contents p and the stages s.
Holds(b, p, s) ==
    /\ p \in Seq(Entries) /\ Distinct(p) /\ Len(p) <= MaxPending
    /\ Elements(p) = {e \in Entries : s[e] = "pending" /\ BufferOf(e) = b}

\* What it says of the entry h that a flush of b awaits.
Awaits(b, h, s) ==
    h # None => h \in Entries /\ BufferOf(h) = b /\ s[h] \in {"reading", "called", "writing"}

-----------------------------------------------------------------------------
(* Buffers *)

LEMMA BufferOfEntry ==
  ASSUME NEW e \in Entries
  PROVE  BufferOf(e) \in Buffer /\ e # None /\ (e \in Req \/ e \in Ev) /\ (e \in Ev => e \notin Req)
  BY EntriesAssumption DEF BufferOf, Buffer, Entries

LEMMA TailElements ==
  ASSUME NEW s \in Seq(Entries), s # <<>>, Distinct(s)
  PROVE  /\ Tail(s) \in Seq(Entries) /\ Distinct(Tail(s)) /\ Len(Tail(s)) = Len(s) - 1
         /\ Head(s) \in Entries /\ Head(s) \in Elements(s)
         /\ Elements(Tail(s)) = Elements(s) \ {Head(s)}
  <1>1. /\ Len(s) \in Nat \ {0} /\ DOMAIN s = 1..Len(s)
        /\ Head(s) = s[1] /\ s[1] \in Entries
        /\ Tail(s) \in Seq(Entries) /\ Len(Tail(s)) = Len(s) - 1
        /\ DOMAIN Tail(s) = 1..(Len(s) - 1)
        /\ \A i \in 1..(Len(s) - 1) : Tail(s)[i] = s[i + 1]
    OBVIOUS
  <1>2. Distinct(Tail(s))
    BY <1>1 DEF Distinct
  <1>3. Elements(Tail(s)) \subseteq Elements(s) \ {Head(s)}
    <2> SUFFICES ASSUME NEW i \in 1..(Len(s) - 1)  PROVE Tail(s)[i] \in Elements(s) \ {Head(s)}
      BY <1>1 DEF Elements
    <2>1. i + 1 \in DOMAIN s /\ 1 \in DOMAIN s /\ i + 1 # 1 /\ Tail(s)[i] = s[i + 1]  BY <1>1
    <2> QED  BY <1>1, <2>1 DEF Elements, Distinct
  <1>4. Elements(s) \ {Head(s)} \subseteq Elements(Tail(s))
    <2> SUFFICES ASSUME NEW i \in 1..Len(s), s[i] # s[1]  PROVE s[i] \in Elements(Tail(s))
      BY <1>1 DEF Elements
    <2>1. i - 1 \in 1..(Len(s) - 1) /\ Tail(s)[i - 1] = s[(i - 1) + 1] /\ (i - 1) + 1 = i  BY <1>1
    <2> QED  BY <1>1, <2>1 DEF Elements
  <1>5. Head(s) \in Elements(s)  BY <1>1 DEF Elements
  <1> QED  BY <1>1, <1>2, <1>3, <1>4, <1>5

LEMMA AppendElements ==
  ASSUME NEW s \in Seq(Entries), Distinct(s), NEW e \in Entries, e \notin Elements(s)
  PROVE  /\ Append(s, e) \in Seq(Entries) /\ Distinct(Append(s, e))
         /\ Len(Append(s, e)) = Len(s) + 1
         /\ Elements(Append(s, e)) = Elements(s) \cup {e}
  <1> DEFINE t == Append(s, e)
  <1>1. /\ Len(s) \in Nat /\ DOMAIN s = 1..Len(s)
        /\ t \in Seq(Entries) /\ Len(t) = Len(s) + 1 /\ DOMAIN t = 1..(Len(s) + 1)
        /\ t[Len(s) + 1] = e /\ \A i \in 1..Len(s) : t[i] = s[i]
    OBVIOUS
  <1>2. \A i \in DOMAIN t : i \in DOMAIN s \/ i = Len(s) + 1
    BY <1>1
  <1>3. Distinct(t)
    BY <1>1, <1>2 DEF Distinct, Elements
  <1>4. Elements(t) = Elements(s) \cup {e}
    BY <1>1, <1>2 DEF Elements
  <1> QED  BY <1>1, <1>3, <1>4

LEMMA NoElements == Elements(<<>>) = {} /\ Distinct(<<>>) /\ <<>> \in Seq(Entries) /\ Len(<<>>) = 0
  BY DEF Elements, Distinct

\* The first of the buffer leaves it.
LEMMA HoldsTail ==
  ASSUME NEW b \in Buffer, NEW p, NEW s \in [Entries -> Stage], Holds(b, p, s), p # <<>>,
         NEW new \in Stage, new # "pending"
  PROVE  /\ Head(p) \in Entries /\ BufferOf(Head(p)) = b /\ s[Head(p)] = "pending"
         /\ Holds(b, Tail(p), [s EXCEPT ![Head(p)] = new]) /\ Len(Tail(p)) = Len(p) - 1
  <1>1. p \in Seq(Entries) /\ Len(p) \in Nat /\ MaxPending \in Nat /\ Len(p) <= MaxPending /\ Distinct(p)
    BY MaxAssumption DEF Holds
  <1>2. Head(p) \in Entries /\ s[Head(p)] = "pending" /\ BufferOf(Head(p)) = b
    BY <1>1, TailElements DEF Holds
  <1>3. Elements(Tail(p)) = Elements(p) \ {Head(p)} /\ Len(Tail(p)) = Len(p) - 1
    BY <1>1, TailElements
  <1>4. Elements(Tail(p)) = {e \in Entries : [s EXCEPT ![Head(p)] = new][e] = "pending" /\ BufferOf(e) = b}
    BY <1>2, <1>3 DEF Holds
  <1> QED  BY <1>1, <1>2, <1>3, <1>4, TailElements DEF Holds

\* A change of stages that is of no entry of this buffer.
LEMMA HoldsOthers ==
  ASSUME NEW b, NEW p, NEW s, NEW t, Holds(b, p, s),
         \A e \in Entries : BufferOf(e) = b => (s[e] = "pending" <=> t[e] = "pending")
  PROVE  Holds(b, p, t)
  BY DEF Holds

\* The entry e is put into the buffer b.
LEMMA BufferedHolds ==
  ASSUME TypeOK, NEW e \in Entries, Holds(BufferOf(e), pending[BufferOf(e)], stage), stage[e] # "pending"
  PROVE  LET b == BufferOf(e)
             p == Buffered(pending[b], e)
             s == Restaged(pending[b], e)
         IN  /\ Holds(b, p, s) /\ p # <<>>
             /\ s \in [Entries -> Stage] /\ s[e] = "pending"
             /\ \A f \in Entries : f # e => s[f] = stage[f] \/ (stage[f] = "pending" /\ s[f] = "dropped")
             /\ \A f \in Entries : BufferOf(f) # b => s[f] = stage[f]
  <1> DEFINE b == BufferOf(e)
             q == pending[b]
             d == [stage EXCEPT ![Head(q)] = "dropped"]
             s == Restaged(q, e)
  <1>1. stage \in [Entries -> Stage] /\ q \in Seq(Entries) /\ b \in Buffer /\ Distinct(q)
        /\ Len(q) \in Nat /\ MaxPending \in Nat \ {0} /\ Len(q) <= MaxPending
    BY BufferOfEntry, MaxAssumption DEF TypeOK, Holds
  <1>2. CASE Len(q) >= MaxPending
    <2>1. q # <<>>  BY <1>1, <1>2
    <2>2. /\ Head(q) \in Entries /\ BufferOf(Head(q)) = b /\ stage[Head(q)] = "pending"
          /\ Holds(b, Tail(q), d) /\ Len(Tail(q)) = Len(q) - 1
      BY <1>1, <2>1, HoldsTail DEF Stage
    <2>3. Head(q) # e /\ s = [d EXCEPT ![e] = "pending"] /\ Buffered(q, e) = Append(Tail(q), e)
      BY <1>2, <2>2 DEF Restaged, Buffered
    <2>4. d \in [Entries -> Stage] /\ d[e] # "pending"  BY <1>1, <2>2, <2>3 DEF Stage
    <2>5. e \notin Elements(Tail(q)) /\ Tail(q) \in Seq(Entries) /\ Distinct(Tail(q))
      BY <2>2, <2>4 DEF Holds
    <2>6. /\ Append(Tail(q), e) \in Seq(Entries) /\ Distinct(Append(Tail(q), e))
          /\ Len(Append(Tail(q), e)) = Len(Tail(q)) + 1
          /\ Elements(Append(Tail(q), e)) = Elements(Tail(q)) \cup {e}
      BY <2>5, AppendElements
    <2>7. s \in [Entries -> Stage] /\ s[e] = "pending"  BY <2>3, <2>4 DEF Stage
    <2>8. \A f \in Entries : f # e => s[f] = d[f]  BY <2>3, <2>4
    <2>9. Elements(Append(Tail(q), e)) = {f \in Entries : s[f] = "pending" /\ BufferOf(f) = b}
      BY <2>2, <2>6, <2>7, <2>8 DEF Holds
    <2>10. \A f \in Entries : f # e => s[f] = stage[f] \/ (stage[f] = "pending" /\ s[f] = "dropped")
      BY <1>1, <2>2, <2>8 DEF Stage
    <2>11. \A f \in Entries : BufferOf(f) # b => s[f] = stage[f]
      BY <1>1, <2>2, <2>8
    <2>12. Append(Tail(q), e) # <<>>  BY <2>6, NoElements
    <2>13. Len(Append(Tail(q), e)) <= MaxPending  BY <1>1, <2>2, <2>6
    <2> QED  BY <1>1, <2>3, <2>6, <2>7, <2>9, <2>10, <2>11, <2>12, <2>13 DEF Holds
  <1>3. CASE ~(Len(q) >= MaxPending)
    <2>1. s = [stage EXCEPT ![e] = "pending"] /\ Buffered(q, e) = Append(q, e)
      BY <1>3 DEF Restaged, Buffered
    <2>2. e \notin Elements(q)  BY DEF Holds
    <2>3. /\ Append(q, e) \in Seq(Entries) /\ Distinct(Append(q, e))
          /\ Len(Append(q, e)) = Len(q) + 1
          /\ Elements(Append(q, e)) = Elements(q) \cup {e}
      BY <1>1, <2>2, AppendElements
    <2>4. s \in [Entries -> Stage] /\ s[e] = "pending"  BY <1>1, <2>1 DEF Stage
    <2>5. \A f \in Entries : f # e => s[f] = stage[f]  BY <1>1, <2>1
    <2>6. Elements(Append(q, e)) = {f \in Entries : s[f] = "pending" /\ BufferOf(f) = b}
      BY <2>3, <2>4, <2>5 DEF Holds
    <2>7. Append(q, e) # <<>>  BY <2>3, NoElements
    <2>8. Len(Append(q, e)) <= MaxPending  BY <1>1, <1>3, <2>3
    <2> QED  BY <2>1, <2>3, <2>4, <2>5, <2>6, <2>7, <2>8 DEF Holds
  <1> QED  BY <1>2, <1>3

-----------------------------------------------------------------------------
(* The ends of a publication *)

\* The parts of TypeOK that an end of a publication changes.
BuffersTyped ==
    /\ pending \in [Buffer -> Seq(Entries)]
    /\ timer \in [Buffer -> BOOLEAN] /\ hand \in [Buffer -> Entries \cup {None}]
    /\ stage \in [Entries -> Stage]

\* What the publication of e leaves behind: entries other than e were taken
\* from a buffer by a flush, or made room, and nothing is stranded.
Left(e, stages) ==
    /\ BuffersTyped' /\ Accounted'
    /\ \A f \in Entries \ {e} : \/ stage'[f] = stage[f]
                                \/ stage[f] = "pending" /\ stage'[f] \in {Started(f), "dropped"}
    /\ stage'[e] \in stages
    /\ \A b \in Buffer : (writable /\ pending'[b] # <<>>) => hand'[b] # None \/ timer'[b] \/ announce

LEMMA AccountedByBuffer ==
  ASSUME TypeOK
  PROVE  Accounted <=> \A b \in Buffer : Holds(b, pending[b], stage) /\ Awaits(b, hand[b], stage)
  BY DEF Accounted, Holds, Awaits, TypeOK

LEMMA StartedStage ==
  ASSUME NEW e \in Entries
  PROVE  Started(e) \in {"reading", "writing"} /\ (Started(e) = "reading" <=> e \in Req)
  BY DEF Started

\* A flush that goes on with the buffer p and the stages s.
LEMMA ResumeKeeps ==
  ASSUME TypeOK, NEW b \in Buffer, NEW p, NEW t \in BOOLEAN, NEW s \in [Entries -> Stage],
         Holds(b, p, s),
         \A c \in Buffer \ {b} : Holds(c, pending[c], s) /\ Awaits(c, hand[c], s),
         Resume(b, p, t, s)
  PROVE  /\ BuffersTyped' /\ Accounted'
         /\ \A f \in Entries : stage'[f] = s[f] \/ (s[f] = "pending" /\ stage'[f] = Started(f))
         /\ pending'[b] # <<>> => hand'[b] # None \/ timer'[b]
         /\ \A c \in Buffer \ {b} : pending'[c] = pending[c] /\ hand'[c] = hand[c] /\ timer'[c] = timer[c]
  <1>1. /\ p \in Seq(Entries)
        /\ pending \in [Buffer -> Seq(Entries)] /\ timer \in [Buffer -> BOOLEAN]
        /\ hand \in [Buffer -> Entries \cup {None}]
    BY DEF TypeOK, Holds
  <1>2. CASE writable /\ p # <<>>
    <2> DEFINE h == Head(p)
    <2>1. /\ pending' = [pending EXCEPT ![b] = Tail(p)] /\ timer' = [timer EXCEPT ![b] = t]
          /\ hand' = [hand EXCEPT ![b] = h] /\ stage' = [s EXCEPT ![h] = Started(h)]
      BY <1>2 DEF Resume, Loop
    <2>2. Started(h) \in Stage /\ Started(h) # "pending" /\ Started(h) \in {"reading", "writing"}
      BY DEF Started, Stage
    <2>3. /\ h \in Entries /\ BufferOf(h) = b /\ s[h] = "pending"
          /\ Holds(b, Tail(p), stage')
      BY <1>2, <2>1, <2>2, HoldsTail
    <2>4. stage' \in [Entries -> Stage] /\ stage'[h] = Started(h) /\ \A f \in Entries : f # h => stage'[f] = s[f]
      BY <2>1, <2>2, <2>3
    <2>5. Tail(p) \in Seq(Entries)  BY <2>3 DEF Holds
    <2>6. BuffersTyped'  BY <1>1, <2>1, <2>3, <2>4, <2>5 DEF BuffersTyped
    <2>7. \A c \in Buffer \ {b} : Holds(c, pending[c], stage') /\ Awaits(c, hand[c], stage')
      <3> TAKE c \in Buffer \ {b}
      <3>1. Holds(c, pending[c], s) /\ Awaits(c, hand[c], s)  OBVIOUS
      <3>2. \A e \in Entries : BufferOf(e) = c => e # h  BY <2>3
      <3>3. Holds(c, pending[c], stage')  BY <3>1, <3>2, <2>4, HoldsOthers
      <3>4. Awaits(c, hand[c], stage')  BY <3>1, <3>2, <2>4 DEF Awaits
      <3> QED  BY <3>3, <3>4
    <2>8. Awaits(b, h, stage')  BY <2>2, <2>3, <2>4 DEF Awaits
    <2>9. \A c \in Buffer : Holds(c, pending'[c], stage') /\ Awaits(c, hand'[c], stage')
      BY <1>1, <2>1, <2>3, <2>7, <2>8
    <2>10. Accounted'  BY <2>9 DEF Accounted, Holds, Awaits
    <2>11. hand'[b] # None  BY <1>1, <2>1, <2>3, BufferOfEntry
    <2>12. \A c \in Buffer \ {b} : pending'[c] = pending[c] /\ hand'[c] = hand[c] /\ timer'[c] = timer[c]
      BY <1>1, <2>1
    <2> QED  BY <2>3, <2>4, <2>6, <2>10, <2>11, <2>12
  <1>3. CASE ~(writable /\ p # <<>>)
    <2>1. /\ pending' = [pending EXCEPT ![b] = p] /\ timer' = [timer EXCEPT ![b] = t \/ p # <<>>]
          /\ hand' = [hand EXCEPT ![b] = None] /\ stage' = s
      BY <1>3 DEF Resume, Loop
    <2>2. BuffersTyped'  BY <1>1, <2>1 DEF BuffersTyped
    <2>3. \A c \in Buffer : Holds(c, pending'[c], stage') /\ Awaits(c, hand'[c], stage')
      BY <1>1, <2>1 DEF Awaits
    <2>4. Accounted'  BY <2>3 DEF Accounted, Holds, Awaits
    <2>5. pending'[b] # <<>> => timer'[b]  BY <1>1, <2>1
    <2>6. \A c \in Buffer \ {b} : pending'[c] = pending[c] /\ hand'[c] = hand[c] /\ timer'[c] = timer[c]
      BY <1>1, <2>1
    <2> QED  BY <2>1, <2>2, <2>4, <2>5, <2>6
  <1> QED  BY <1>2, <1>3

Final == {"written", "failed", "rejected"}

LEMMA SettleKeeps ==
  ASSUME TypeOK, BuffersKeep, NEW e \in Entries, stage[e] # "pending",
         NEW final \in Final, Settle(e, final)
  PROVE  Left(e, {final})
  <1> DEFINE b == BufferOf(e)
             s == [stage EXCEPT ![e] = final]
  <1>1. /\ b \in Buffer /\ stage \in [Entries -> Stage]
        /\ \A c \in Buffer : Holds(c, pending[c], stage) /\ Awaits(c, hand[c], stage)
    BY BufferOfEntry, AccountedByBuffer DEF BuffersKeep, TypeOK
  <1>2. s \in [Entries -> Stage] /\ s[e] = final /\ \A f \in Entries : f # e => s[f] = stage[f]
    BY <1>1 DEF Stage, Final
  <1>3. \A c \in Buffer : Holds(c, pending[c], s)
    BY <1>1, <1>2, HoldsOthers DEF Final
  <1>4. \A c \in Buffer : hand[c] # e => Awaits(c, hand[c], s)
    BY <1>1, <1>2 DEF Awaits
  <1>5. CASE hand[b] = e
    <2>1. \A c \in Buffer \ {b} : hand[c] # e
      BY <1>1, BufferOfEntry DEF Awaits
    <2>2. Resume(b, pending[b], timer[b], s) /\ timer[b] \in BOOLEAN
      BY <1>1, <1>5 DEF Settle, TypeOK
    <2>3. /\ BuffersTyped' /\ Accounted'
          /\ \A f \in Entries : stage'[f] = s[f] \/ (s[f] = "pending" /\ stage'[f] = Started(f))
          /\ pending'[b] # <<>> => hand'[b] # None \/ timer'[b]
          /\ \A c \in Buffer \ {b} : pending'[c] = pending[c] /\ hand'[c] = hand[c] /\ timer'[c] = timer[c]
      BY <1>1, <1>2, <1>3, <1>4, <2>1, <2>2, ResumeKeeps
    <2>4. /\ stage'[e] = final
          /\ \A f \in Entries \ {e} : stage'[f] = stage[f] \/ (stage[f] = "pending" /\ stage'[f] = Started(f))
      BY <1>2, <2>3 DEF Final
    <2>5. \A c \in Buffer : (writable /\ pending'[c] # <<>>) => hand'[c] # None \/ timer'[c] \/ announce
      BY <2>3 DEF BuffersKeep, NeverStranded
    <2> QED  BY <2>3, <2>4, <2>5 DEF Left
  <1>6. CASE hand[b] # e
    <2>1. stage' = s /\ pending' = pending /\ timer' = timer /\ hand' = hand
      BY <1>6 DEF Settle
    <2>2. \A c \in Buffer : hand[c] # e
      BY <1>1, <1>6, BufferOfEntry DEF Awaits
    <2>3. Accounted'  BY <1>3, <1>4, <2>1, <2>2 DEF Accounted, Holds, Awaits
    <2>4. BuffersTyped'  BY <1>2, <2>1 DEF BuffersTyped, TypeOK
    <2>5. \A c \in Buffer : (writable /\ pending'[c] # <<>>) => hand'[c] # None \/ timer'[c] \/ announce
      BY <2>1 DEF BuffersKeep, NeverStranded
    <2> QED  BY <1>2, <2>1, <2>3, <2>4, <2>5 DEF Left
  <1> QED  BY <1>5, <1>6

LEMMA HoldKeeps ==
  ASSUME TypeOK, BuffersKeep, NEW e \in Entries, stage[e] # "pending", Hold(e)
  PROVE  Left(e, {"pending", Started(e)}) /\ buffered' \subseteq Entries
  <1> DEFINE b == BufferOf(e)
             p == Buffered(pending[b], e)
             s == Restaged(pending[b], e)
  <1>1. /\ b \in Buffer /\ stage \in [Entries -> Stage]
        /\ \A c \in Buffer : Holds(c, pending[c], stage) /\ Awaits(c, hand[c], stage)
    BY BufferOfEntry, AccountedByBuffer DEF BuffersKeep, TypeOK
  <1>2. /\ Holds(b, p, s) /\ p # <<>>
        /\ s \in [Entries -> Stage] /\ s[e] = "pending"
        /\ \A f \in Entries : f # e => s[f] = stage[f] \/ (stage[f] = "pending" /\ s[f] = "dropped")
        /\ \A f \in Entries : BufferOf(f) # b => s[f] = stage[f]
    BY <1>1, BufferedHolds
  <1>3. \A c \in Buffer \ {b} : Holds(c, pending[c], s) /\ Awaits(c, hand[c], s)
    <2> TAKE c \in Buffer \ {b}
    <2>1. \A f \in Entries : BufferOf(f) = c => s[f] = stage[f]  BY <1>2
    <2>2. Holds(c, pending[c], s)  BY <1>1, <2>1, HoldsOthers
    <2>3. Awaits(c, hand[c], s)  BY <1>1, <2>1 DEF Awaits
    <2> QED  BY <2>2, <2>3
  <1>4. buffered' \subseteq Entries  BY DEF Hold, TypeOK
  <1>5. CASE hand[b] = e
    <2>1. Resume(b, p, TRUE, s)  BY <1>5 DEF Hold
    <2>2. /\ BuffersTyped' /\ Accounted'
          /\ \A f \in Entries : stage'[f] = s[f] \/ (s[f] = "pending" /\ stage'[f] = Started(f))
          /\ pending'[b] # <<>> => hand'[b] # None \/ timer'[b]
          /\ \A c \in Buffer \ {b} : pending'[c] = pending[c] /\ hand'[c] = hand[c] /\ timer'[c] = timer[c]
      BY <1>1, <1>2, <1>3, <2>1, ResumeKeeps
    <2>3. \A f \in Entries \ {e} : \/ stage'[f] = stage[f]
                                   \/ stage[f] = "pending" /\ stage'[f] \in {Started(f), "dropped"}
      BY <1>2, <2>2
    <2>4. stage'[e] \in {"pending", Started(e)}  BY <1>2, <2>2
    <2>5. \A c \in Buffer : (writable /\ pending'[c] # <<>>) => hand'[c] # None \/ timer'[c] \/ announce
      BY <2>2 DEF BuffersKeep, NeverStranded
    <2> QED  BY <1>4, <2>2, <2>3, <2>4, <2>5 DEF Left
  <1>6. CASE hand[b] # e
    <2>1. /\ pending' = [pending EXCEPT ![b] = p] /\ timer' = [timer EXCEPT ![b] = TRUE]
          /\ stage' = s /\ hand' = hand
      BY <1>6 DEF Hold
    <2>2. Awaits(b, hand[b], s)  BY <1>1, <1>2, <1>6 DEF Awaits
    <2>3. p \in Seq(Entries)  BY <1>2 DEF Holds
    <2>4. BuffersTyped'  BY <1>1, <1>2, <2>1, <2>3 DEF BuffersTyped, TypeOK
    <2>5. \A c \in Buffer : Holds(c, pending'[c], stage') /\ Awaits(c, hand'[c], stage')
      BY <1>1, <1>2, <1>3, <2>1, <2>2 DEF TypeOK
    <2>6. Accounted'  BY <2>5 DEF Accounted, Holds, Awaits
    <2>7. \A c \in Buffer : (writable /\ pending'[c] # <<>>) => hand'[c] # None \/ timer'[c] \/ announce
      BY <1>1, <2>1 DEF BuffersKeep, NeverStranded, TypeOK
    <2> QED  BY <1>2, <1>4, <2>1, <2>4, <2>6, <2>7 DEF Left
  <1> QED  BY <1>5, <1>6

-----------------------------------------------------------------------------
(* Steps *)

LEMMA AppendHead ==
  ASSUME NEW S, NEW s \in Seq(S), NEW e \in S
  PROVE  /\ Append(s, e) \in Seq(S) /\ Append(s, e) # <<>>
         /\ s # <<>> => Head(Append(s, e)) = Head(s)
  <1>1. Append(s, e) \in Seq(S) /\ Len(Append(s, e)) = Len(s) + 1 /\ Len(s) \in Nat
    OBVIOUS
  <1>2. Append(s, e) # <<>>
    BY <1>1
  <1>3. ASSUME s # <<>>  PROVE Head(Append(s, e)) = Head(s)
    BY <1>1, <1>3
  <1> QED  BY <1>1, <1>2, <1>3

\* A publication that leaves the queue of its connection was the first there:
\* the REQ that is writing there, if another one is, stays the first.
LEMMA LeaveKeepsRuns ==
  ASSUME TypeOK, NEW e \in Entries, e \in Req => Runs(e), LeaveQueue(e)
  PROVE  /\ tasks' \in [Conn -> Seq(Req)]
         /\ \A f \in Req \ {e} : Runs(f) => Runs(f)'
  <1>1. CASE e \notin Req
    BY <1>1 DEF LeaveQueue, TypeOK, Runs
  <1>2. CASE e \in Req
    <2> DEFINE c == ConnOf[e]
    <2>1. c \in Conn /\ tasks[c] \in Seq(Req) /\ tasks[c] # <<>> /\ Head(tasks[c]) = e
      BY <1>2, EntriesAssumption DEF TypeOK, Runs
    <2>2. Tail(tasks[c]) \in Seq(Req)  BY <2>1
    <2>3. tasks' = [tasks EXCEPT ![c] = Tail(tasks[c])]  BY <1>2 DEF LeaveQueue
    <2>4. \A f \in Req \ {e} : Runs(f) => ConnOf[f] # c  BY <2>1 DEF Runs
    <2>5. \A d \in Conn : d # c => tasks'[d] = tasks[d]  BY <2>3 DEF TypeOK
    <2>6. \A f \in Req : ConnOf[f] \in Conn  BY EntriesAssumption
    <2> QED  BY <2>2, <2>3, <2>4, <2>5, <2>6 DEF TypeOK, Runs
  <1> QED  BY <1>1, <1>2

\* The queues and the stages after the end of a publication.
LEMMA LeftQueued ==
  ASSUME TypeOK, Queued, NEW e \in Entries,
         Left(e, Final \cup {"pending", Started(e)}), LeaveQueue(e), e \in Req => Runs(e)
  PROVE  Queued' /\ tasks' \in [Conn -> Seq(Req)]
  <1>1. tasks' \in [Conn -> Seq(Req)] /\ \A f \in Req \ {e} : Runs(f) => Runs(f)'
    BY LeaveKeepsRuns
  <1>2. \A f \in Entries : \/ f # e /\ stage'[f] = stage[f]
                           \/ stage'[f] \in Final \cup {"pending", "dropped", Started(f)}
    BY DEF Left
  <1>3. \A f \in Entries : stage'[f] \in {"reading", "called"} => f \in Req
    BY <1>2, StartedStage DEF Queued, Final
  <1>4. \A f \in Entries : stage'[f] = "verifying" => f \in Ev
    BY <1>2, StartedStage DEF Queued, Final
  <1>5. \A f \in Req : stage'[f] = "writing" => Runs(f)'
    <2> SUFFICES ASSUME NEW f \in Req, stage'[f] = "writing"  PROVE Runs(f)'
      OBVIOUS
    <2>1. f \in Entries /\ Started(f) # "writing"  BY StartedStage DEF Entries
    <2>2. f # e /\ stage[f] = "writing"  BY <1>2, <2>1 DEF Final
    <2> QED  BY <1>1, <2>2 DEF Queued
  <1> QED  BY <1>1, <1>3, <1>4, <1>5 DEF Queued

LEMMA LeftInv ==
  ASSUME IInv, NEW e \in Entries, Left(e, Final \cup {"pending", Started(e)}),
         LeaveQueue(e), e \in Req => Runs(e),
         UNCHANGED <<writable, announce>>, buffered' \subseteq Entries
  PROVE  IInv'
  <1>1. Queued' /\ tasks' \in [Conn -> Seq(Req)]
    BY LeftQueued DEF IInv
  <1>2. TypeOK'
    BY <1>1 DEF IInv, TypeOK, Left, BuffersTyped
  <1>3. BuffersKeep'
    BY DEF Left, BuffersKeep, NeverStranded
  <1> QED  BY <1>1, <1>2, <1>3 DEF IInv

\* A step of one publication that leaves buffers and flushes alone.
LEMMA MovesInv ==
  ASSUME IInv, NEW e \in Entries, NEW to \in {"reading", "called", "writing", "verifying"},
         stage[e] # "pending", stage' = [stage EXCEPT ![e] = to],
         to = "verifying" => \A b \in Buffer : hand[b] # e,
         UNCHANGED <<pending, timer, hand, writable, announce>>
  PROVE  BuffersTyped' /\ BuffersKeep' /\ stage'[e] = to /\ \A f \in Entries \ {e} : stage'[f] = stage[f]
  <1>1. /\ stage \in [Entries -> Stage]
        /\ \A c \in Buffer : Holds(c, pending[c], stage) /\ Awaits(c, hand[c], stage)
    BY AccountedByBuffer DEF IInv, BuffersKeep, TypeOK
  <1>2. stage' \in [Entries -> Stage] /\ stage'[e] = to /\ \A f \in Entries \ {e} : stage'[f] = stage[f]
    BY <1>1 DEF Stage
  <1>3. \A c \in Buffer : Holds(c, pending[c], stage')
    BY <1>1, <1>2, HoldsOthers
  <1>4. \A c \in Buffer : Awaits(c, hand[c], stage')
    BY <1>1, <1>2 DEF Awaits
  <1>5. Accounted'  BY <1>3, <1>4 DEF Accounted, Holds, Awaits
  <1>6. NeverStranded'  BY DEF IInv, BuffersKeep, NeverStranded
  <1>7. BuffersTyped'  BY <1>2 DEF BuffersTyped, IInv, TypeOK
  <1> QED  BY <1>2, <1>5, <1>6, <1>7 DEF BuffersKeep

LEMMA InitInv == Init => IInv
  <1> SUFFICES ASSUME Init  PROVE IInv
    OBVIOUS
  <1>1. TypeOK
    <2>1. <<>> \in Seq(Entries) /\ <<>> \in Seq(Req) /\ None \in Entries \cup {None}  OBVIOUS
    <2>2. pending \in [Buffer -> Seq(Entries)] /\ tasks \in [Conn -> Seq(Req)]  BY <2>1 DEF Init
    <2>3. writable \in BOOLEAN /\ announce \in BOOLEAN /\ timer \in [Buffer -> BOOLEAN]
      BY Zenon DEF Init
    <2>4. hand \in [Buffer -> Entries \cup {None}] /\ stage \in [Entries -> Stage] /\ buffered \subseteq Entries
      BY <2>1 DEF Init, Stage
    <2> QED  BY <2>2, <2>3, <2>4 DEF TypeOK
  <1>2. Queued  BY DEF Init, Queued, Entries
  <1>3. Accounted  BY NoElements, MaxAssumption DEF Init, Accounted
  <1>4. NeverStranded  BY DEF Init, NeverStranded
  <1> QED  BY <1>1, <1>2, <1>3, <1>4 DEF IInv, BuffersKeep

LEMMA SubmitInv ==
  ASSUME IInv, NEW e \in Entries, Submit(e)
  PROVE  IInv'
  <1> DEFINE to == IF e \in Req \/ writable THEN Started(e) ELSE "verifying"
  <1>1. to \in {"reading", "called", "writing", "verifying"}  BY StartedStage
  <1>2. /\ stage[e] = "new" /\ stage' = [stage EXCEPT ![e] = to]
        /\ UNCHANGED <<pending, timer, hand, writable, announce, tasks, buffered>>
    BY DEF Submit
  <1>3. \A b \in Buffer : hand[b] # e
    BY <1>2, BufferOfEntry DEF IInv, BuffersKeep, Accounted
  <1>4. BuffersTyped' /\ BuffersKeep' /\ stage'[e] = to /\ \A f \in Entries \ {e} : stage'[f] = stage[f]
    BY <1>1, <1>2, <1>3, MovesInv
  <1>5. to = "verifying" => e \in Ev  BY StartedStage DEF Entries
  <1>6. to \in {"reading", "called"} => e \in Req  BY StartedStage
  <1>7. to = "writing" => e \notin Req  BY StartedStage
  <1>8. Queued'  BY <1>2, <1>4, <1>5, <1>6, <1>7 DEF Queued, IInv, Runs, Entries
  <1>9. TypeOK'  BY <1>2, <1>4 DEF BuffersTyped, TypeOK, IInv
  <1> QED  BY <1>4, <1>8, <1>9 DEF IInv

LEMMA CallInv ==
  ASSUME IInv, NEW e \in Entries, Call(e)
  PROVE  IInv'
  <1> DEFINE c == ConnOf[e]
  <1>1. e \in Req /\ c \in Conn /\ tasks \in [Conn -> Seq(Req)]
    BY EntriesAssumption DEF Call, IInv, Queued, TypeOK
  <1>2. /\ stage[e] = "reading" /\ stage' = [stage EXCEPT ![e] = "called"]
        /\ tasks' = [tasks EXCEPT ![c] = Append(tasks[c], e)]
        /\ UNCHANGED <<pending, timer, hand, writable, announce, buffered>>
    BY DEF Call
  <1>3. BuffersTyped' /\ BuffersKeep' /\ stage'[e] = "called" /\ \A f \in Entries \ {e} : stage'[f] = stage[f]
    BY <1>2, MovesInv
  <1>4. Append(tasks[c], e) \in Seq(Req) /\ Append(tasks[c], e) # <<>>
        /\ (tasks[c] # <<>> => Head(Append(tasks[c], e)) = Head(tasks[c]))
    BY <1>1, AppendHead
  <1>5. \A f \in Req : Runs(f) => Runs(f)'
    BY <1>1, <1>2, <1>4 DEF Runs
  <1>6. Queued'  BY <1>1, <1>3, <1>5 DEF Queued, IInv, Entries
  <1>7. TypeOK'  BY <1>1, <1>2, <1>3, <1>4 DEF BuffersTyped, TypeOK, IInv
  <1> QED  BY <1>3, <1>6, <1>7 DEF IInv

LEMMA FindWriterInv ==
  ASSUME IInv, NEW e \in Entries, FindWriter(e)
  PROVE  IInv'
  <1>1. /\ stage[e] = "called" /\ stage' = [stage EXCEPT ![e] = "writing"] /\ Runs(e)
        /\ UNCHANGED <<pending, timer, hand, writable, announce, tasks, buffered>>
    BY DEF FindWriter
  <1>2. BuffersTyped' /\ BuffersKeep' /\ stage'[e] = "writing" /\ \A f \in Entries \ {e} : stage'[f] = stage[f]
    BY <1>1, MovesInv
  <1>3. Queued'  BY <1>1, <1>2 DEF Queued, IInv, Runs, Entries
  <1>4. TypeOK'  BY <1>1, <1>2 DEF BuffersTyped, TypeOK, IInv
  <1> QED  BY <1>2, <1>3, <1>4 DEF IInv

\* The ends of a publication: a REQ is the first of its queue, an event in none.
LEMMA HoldInv ==
  ASSUME IInv, NEW e \in Entries, stage[e] # "pending", Hold(e), LeaveQueue(e), e \in Req => Runs(e),
         UNCHANGED <<writable, announce>>
  PROVE  IInv'
  <1>1. Left(e, {"pending", Started(e)}) /\ buffered' \subseteq Entries
    BY HoldKeeps DEF IInv
  <1>2. Left(e, Final \cup {"pending", Started(e)})
    BY <1>1 DEF Left
  <1> QED  BY <1>1, <1>2, LeftInv

LEMMA SettleInv ==
  ASSUME IInv, NEW e \in Entries, stage[e] # "pending", NEW final \in Final, Settle(e, final),
         LeaveQueue(e), e \in Req => Runs(e), UNCHANGED <<writable, announce, buffered>>
  PROVE  IInv'
  <1>1. Left(e, {final})
    BY SettleKeeps DEF IInv
  <1>2. Left(e, Final \cup {"pending", Started(e)})
    BY <1>1 DEF Left
  <1>3. buffered' \subseteq Entries
    BY DEF IInv, TypeOK
  <1> QED  BY <1>2, <1>3, LeftInv

LEMMA PublishInv ==
  ASSUME IInv, NEW e \in Entries, Publish(e)
  PROVE  IInv'
  <1>1. CASE Call(e)  BY <1>1, CallInv
  <1>2. CASE FindWriter(e)  BY <1>2, FindWriterInv
  <1>3. CASE FindNoWriter(e)
    BY <1>3, HoldInv DEF FindNoWriter
  <1>4. CASE Verify(e)
    <2>1. stage[e] = "verifying" /\ e \notin Req
      BY <1>4, EntriesAssumption DEF Verify, IInv, Queued
    <2>2. LeaveQueue(e)  BY <1>4, <2>1 DEF Verify, LeaveQueue
    <2>3. CASE e \in Valid
      BY <1>4, <2>1, <2>2, <2>3, HoldInv DEF Verify
    <2>4. CASE e \notin Valid
      BY <1>4, <2>1, <2>2, <2>4, SettleInv DEF Verify, Final
    <2> QED  BY <2>3, <2>4
  <1>5. CASE Write(e)
    <2>1. e \in Req => Runs(e)  BY <1>5 DEF Write, IInv, Queued
    <2> QED  BY <1>5, <2>1, SettleInv DEF Write, Final
  <1>6. CASE WriteFails(e)
    <2>1. e \in Req => Runs(e)  BY <1>6 DEF WriteFails, IInv, Queued
    <2>2. (IF e \in Req \cup Valid THEN "failed" ELSE "rejected") \in Final  BY DEF Final
    <2> QED  BY <1>6, <2>1, <2>2, SettleInv DEF WriteFails
  <1> QED  BY <1>1, <1>2, <1>3, <1>4, <1>5, <1>6 DEF Publish

LEMMA TimerInv ==
  ASSUME IInv, NEW b \in Buffer, Timer(b)
  PROVE  IInv'
  <1>1. UNCHANGED <<writable, announce, tasks, buffered>>
    BY DEF Timer
  <1>2. CASE MayFlush(b)
    <2>1. Resume(b, pending[b], FALSE, stage)  BY <1>2 DEF Timer
    <2>2. \A c \in Buffer : Holds(c, pending[c], stage) /\ Awaits(c, hand[c], stage)
      BY AccountedByBuffer DEF IInv, BuffersKeep
    <2>3. /\ BuffersTyped' /\ Accounted'
          /\ \A f \in Entries : stage'[f] = stage[f] \/ (stage[f] = "pending" /\ stage'[f] = Started(f))
          /\ pending'[b] # <<>> => hand'[b] # None \/ timer'[b]
          /\ \A c \in Buffer \ {b} : pending'[c] = pending[c] /\ hand'[c] = hand[c] /\ timer'[c] = timer[c]
      <3>1. FALSE \in BOOLEAN /\ stage \in [Entries -> Stage] /\ TypeOK  BY DEF IInv, TypeOK
      <3> QED  BY <2>1, <2>2, <3>1, ResumeKeeps
    <2>4. Queued'  BY <1>1, <2>3, StartedStage DEF Queued, IInv, Runs, Entries
    <2>5. TypeOK'  BY <1>1, <2>3 DEF BuffersTyped, TypeOK, IInv
    <2>6. NeverStranded'  BY <1>1, <2>3 DEF NeverStranded, IInv, BuffersKeep
    <2> QED  BY <2>3, <2>4, <2>5, <2>6 DEF IInv, BuffersKeep
  <1>3. CASE ~MayFlush(b)
    <2>1. timer' = [timer EXCEPT ![b] = FALSE] /\ UNCHANGED <<pending, hand, stage>>
      BY <1>3 DEF Timer
    <2>2. TypeOK'  BY <1>1, <2>1 DEF TypeOK, IInv
    <2>3. Queued' /\ Accounted'  BY <1>1, <2>1 DEF Queued, Runs, Accounted, IInv, BuffersKeep
    <2>4. NeverStranded'
      BY <1>1, <1>3, <2>1 DEF NeverStranded, MayFlush, IInv, BuffersKeep, TypeOK
    <2> QED  BY <2>2, <2>3, <2>4 DEF IInv, BuffersKeep
  <1> QED  BY <1>2, <1>3

\* The 'writable' event takes the first entry of each buffer that has no flush.
LEMMA WritableInv ==
  ASSUME IInv, Writable
  PROVE  IInv'
  <1> DEFINE taken == {Head(pending[b]) : b \in {c \in Buffer : MayFlush(c)}}
  <1>1. /\ announce' = FALSE
        /\ pending' = [b \in Buffer |-> IF MayFlush(b) THEN Tail(pending[b]) ELSE pending[b]]
        /\ hand' = [b \in Buffer |-> IF MayFlush(b) THEN Head(pending[b]) ELSE hand[b]]
        /\ stage' = [e \in Entries |-> IF e \in taken THEN Started(e) ELSE stage[e]]
        /\ UNCHANGED <<writable, timer, tasks, buffered>>
    BY DEF Writable
  <1>2. /\ stage \in [Entries -> Stage]
        /\ \A c \in Buffer : Holds(c, pending[c], stage) /\ Awaits(c, hand[c], stage)
    BY AccountedByBuffer DEF IInv, BuffersKeep, TypeOK
  <1>3. \A b \in Buffer : MayFlush(b) =>
          /\ Head(pending[b]) \in taken
          /\ Head(pending[b]) \in Entries /\ BufferOf(Head(pending[b])) = b /\ stage[Head(pending[b])] = "pending"
          /\ Tail(pending[b]) \in Seq(Entries) /\ Distinct(Tail(pending[b]))
          /\ Len(Tail(pending[b])) <= MaxPending
          /\ Elements(Tail(pending[b])) = Elements(pending[b]) \ {Head(pending[b])}
    <2> SUFFICES ASSUME NEW b \in Buffer, MayFlush(b)
                 PROVE  /\ Head(pending[b]) \in taken
                        /\ Head(pending[b]) \in Entries /\ BufferOf(Head(pending[b])) = b
                        /\ stage[Head(pending[b])] = "pending"
                        /\ Tail(pending[b]) \in Seq(Entries) /\ Distinct(Tail(pending[b]))
                        /\ Len(Tail(pending[b])) <= MaxPending
                        /\ Elements(Tail(pending[b])) = Elements(pending[b]) \ {Head(pending[b])}
      OBVIOUS
    <2>1. pending[b] # <<>> /\ pending[b] \in Seq(Entries) /\ Distinct(pending[b])
          /\ Len(pending[b]) <= MaxPending
      BY <1>2 DEF MayFlush, Holds
    <2>2. Head(pending[b]) \in taken  OBVIOUS
    <2>3. /\ Head(pending[b]) \in Elements(pending[b]) /\ Head(pending[b]) \in Entries
          /\ Tail(pending[b]) \in Seq(Entries) /\ Distinct(Tail(pending[b]))
          /\ Len(Tail(pending[b])) = Len(pending[b]) - 1
          /\ Elements(Tail(pending[b])) = Elements(pending[b]) \ {Head(pending[b])}
      BY <2>1, TailElements
    <2>4. Len(Tail(pending[b])) <= MaxPending  BY <2>1, <2>3, MaxAssumption
    <2>5. BufferOf(Head(pending[b])) = b /\ stage[Head(pending[b])] = "pending"  BY <1>2, <2>3 DEF Holds
    <2> QED  BY <2>2, <2>3, <2>4, <2>5
  <1>4. \A e \in taken : /\ e \in Entries /\ stage[e] = "pending" /\ MayFlush(BufferOf(e))
                         /\ e = Head(pending[BufferOf(e)])
    BY <1>3
  <1>5. stage' \in [Entries -> Stage]
    BY <1>1, <1>2, StartedStage DEF Stage
  <1>6. \A e \in Entries : stage'[e] = IF e \in taken THEN Started(e) ELSE stage[e]
    BY <1>1
  <1>7. \A b \in Buffer : Holds(b, pending'[b], stage')
    <2> SUFFICES ASSUME NEW b \in Buffer  PROVE Holds(b, pending'[b], stage')
      OBVIOUS
    <2>1. CASE MayFlush(b)
      <3>1. pending'[b] = Tail(pending[b])  BY <1>1, <2>1
      <3>2. \A e \in Entries : BufferOf(e) = b => (e \in taken <=> e = Head(pending[b]))
        BY <1>3, <1>4, <2>1
      <3>3. Elements(pending[b]) = {e \in Entries : stage[e] = "pending" /\ BufferOf(e) = b}
        BY <1>2 DEF Holds
      <3>4. \A e \in Entries : BufferOf(e) = b =>
              (stage'[e] = "pending" <=> stage[e] = "pending" /\ e # Head(pending[b]))
        BY <1>6, <3>2, StartedStage
      <3>5. Elements(Tail(pending[b])) = {e \in Entries : stage'[e] = "pending" /\ BufferOf(e) = b}
        BY <1>3, <2>1, <3>3, <3>4
      <3> QED  BY <1>3, <2>1, <3>1, <3>5 DEF Holds
    <2>2. CASE ~MayFlush(b)
      <3>1. pending'[b] = pending[b]  BY <1>1, <2>2
      <3>2. \A e \in Entries : BufferOf(e) = b => stage'[e] = stage[e]  BY <1>4, <1>6, <2>2
      <3> QED  BY <1>2, <3>1, <3>2, HoldsOthers
    <2> QED  BY <2>1, <2>2
  <1>8. \A b \in Buffer : Awaits(b, hand'[b], stage') /\ hand'[b] \in Entries \cup {None}
    <2> SUFFICES ASSUME NEW b \in Buffer  PROVE Awaits(b, hand'[b], stage') /\ hand'[b] \in Entries \cup {None}
      OBVIOUS
    <2>1. CASE MayFlush(b)
      <3>1. hand'[b] = Head(pending[b])  BY <1>1, <2>1
      <3> QED  BY <1>3, <1>6, <2>1, <3>1, StartedStage DEF Awaits
    <2>2. CASE ~MayFlush(b)
      <3>1. hand'[b] = hand[b]  BY <1>1, <2>2
      <3>2. hand[b] # None => hand[b] \notin taken  BY <1>2, <1>4 DEF Awaits
      <3> QED  BY <1>2, <1>6, <3>1, <3>2 DEF Awaits
    <2> QED  BY <2>1, <2>2
  <1>9. Accounted'
    BY <1>7, <1>8 DEF Accounted, Holds, Awaits
  <1>10. NeverStranded'
    <2>1. \A b \in Buffer : MayFlush(b) => hand'[b] # None
      BY <1>1, <1>3, BufferOfEntry
    <2> QED  BY <1>1, <2>1 DEF NeverStranded, MayFlush
  <1>11. Queued'
    BY <1>1, <1>4, <1>6, StartedStage DEF Queued, IInv, Runs, Entries
  <1>12. pending' \in [Buffer -> Seq(Entries)]
    <2>1. \A b \in Buffer : pending'[b] \in Seq(Entries)  BY <1>7 DEF Holds
    <2> QED  BY <1>1, <2>1
  <1>13. hand' \in [Buffer -> Entries \cup {None}]
    BY <1>1, <1>8
  <1>14. TypeOK'
    BY <1>1, <1>5, <1>12, <1>13 DEF TypeOK, IInv
  <1> QED  BY <1>9, <1>10, <1>11, <1>14 DEF IInv, BuffersKeep

LEMMA NextInv ==
  ASSUME IInv, [Next]_vars
  PROVE  IInv'
  <1>1. ASSUME NEW e \in Entries, Submit(e)  PROVE IInv'
    BY <1>1, SubmitInv
  <1>2. ASSUME NEW e \in Entries, Publish(e)  PROVE IInv'
    BY <1>2, PublishInv
  <1>3. ASSUME NEW b \in Buffer, Timer(b)  PROVE IInv'
    BY <1>3, TimerInv
  <1>4. CASE GainWriter
    BY <1>4 DEF GainWriter, IInv, TypeOK, Queued, Runs, BuffersKeep, Accounted, NeverStranded
  <1>5. CASE LoseWriter
    BY <1>5 DEF LoseWriter, IInv, TypeOK, Queued, Runs, BuffersKeep, Accounted, NeverStranded
  <1>6. CASE Writable
    BY <1>6, WritableInv
  <1>7. CASE UNCHANGED vars
    BY <1>7 DEF vars, IInv, TypeOK, Queued, Runs, BuffersKeep, Accounted, NeverStranded
  <1> QED  BY <1>1, <1>2, <1>3, <1>4, <1>5, <1>6, <1>7 DEF Next

LEMMA Invariance == Spec => []IInv
  BY InitInv, NextInv, PTL DEF Spec

-----------------------------------------------------------------------------
(* Every variable has its type, always.                                    *)
THEOREM TypeCorrect == Spec => []TypeOK
  <1>1. IInv => TypeOK  BY DEF IInv
  <1> QED  BY <1>1, Invariance, PTL

(* A REQ or an event that waits for a writer is in its buffer exactly once *)
(* (Accounted), and a buffer that holds something while the relay can      *)
(* write is going to be flushed (NeverStranded): whatever comes together   *)
(* of timers, 'writable' events, overflows, entries that come back to the  *)
(* buffer, and writers that are lost again.                                *)
THEOREM NothingStranded == Spec => []BuffersKeep
  <1>1. IInv => BuffersKeep  BY DEF IInv
  <1> QED  BY <1>1, Invariance, PTL

-----------------------------------------------------------------------------
(* Invites                                                                 *)

Statuses == {"gone", "pending", "joining", "joined", "failed"}
Records == [status : Statuses, preview : BOOLEAN]
FetchSteps == {"idle", "ask", "unlock", "preview", "second", "end"}
FetchesOf(S) == [at : FetchSteps, held : S, copy : Records, changed : BOOLEAN]
AcceptsOf(S) == [at : {"idle", "join", "sync"}, held : S]

\* The parts of the invariant, of the objects o, the map s and the hands of the
\* syncs f and the accepts a, before and after objects are renamed.
InHand(s, f, a, x) ==
    x = s \/ (\E p \in Syncer : f[p].held = x) \/ (\E c \in Accept : a[c].held = x)

HandsTyped(s, f, a, S) ==
    s \in S /\ f \in [Syncer -> FetchesOf(S)] /\ a \in [Accept -> AcceptsOf(S)]

HeldIsReal(o, s, f, a) ==
    \A x \in 1..6 : InHand(s, f, a, x) => o[x] \in Records /\ o[x].status # "gone"

ShownOf(o, s) == IF s = 0 THEN Gone ELSE o[s]

Hands(f, a) ==
    /\ \A p \in Syncer : (f[p].held # 0 <=> f[p].at = "second")
    /\ \A c \in Accept : (a[c].held # 0 <=> a[c].at # "idle")
    /\ \A p \in Syncer : f[p].at # "preview" => f[p].copy = Gone
    /\ \A p \in Syncer : f[p].at = "preview" => f[p].copy.status # "gone"
    /\ \A p \in Syncer : f[p].at \in {"idle", "ask", "unlock", "preview"} => ~f[p].changed

NoneYet(s, f, a) ==
    s = 0 => /\ \A p \in Syncer : f[p].at # "second"
             /\ \A p \in Syncer : f[p].at = "preview" => f[p].copy.status = "pending"
             /\ \A c \in Accept : a[c].at = "idle"

KeepsStatus(o, s, f, st) ==
    \A p \in Syncer : ~st[p] /\ s # 0 =>
        /\ f[p].at = "unlock" => o[s].status = "pending"
        /\ f[p].at = "preview" => f[p].copy.status = o[s].status
        /\ f[p].at = "second" => o[f[p].held].status = o[s].status

NotJoined(o, s, f, a) ==
    /\ \A x \in 1..6 : InHand(s, f, a, x) => o[x].status # "joined"
    /\ \A p \in Syncer : f[p].copy.status # "joined"
    /\ \A c \in Accept : a[c].at # "sync"

Joining(o, s, a, le) ==
    ShownOf(o, s).status = "joining" => le \/ \E c \in Accept : a[c].at = "join"

Saved(o, s, f, d, du) ==
    ~du /\ ShownOf(o, s).status # "joining" => d = ShownOf(o, s) \/ \E p \in Syncer : f[p].changed

AllOf(o, s, f, a, S) == HandsTyped(s, f, a, S) /\ HeldIsReal(o, s, f, a) /\ Hands(f, a)

InviteInv ==
    /\ restarts \in 0..MaxInviteRestarts /\ object \in [Object -> Records]
    /\ stored \in Records /\ (stored = Gone \/ stored.status # "gone")
    /\ {offered, grouped, due, running, leftover} \subseteq BOOLEAN /\ stale \in [Syncer -> BOOLEAN]
    /\ AllOf(object, slot, fetching, accepting, 0..5)
    /\ ~running => /\ slot = 0 /\ fetching = [p \in Syncer |-> NoFetch]
                   /\ accepting = [c \in Accept |-> NoAccept]
    /\ NoneYet(slot, fetching, accepting)
    /\ KeepsStatus(object, slot, fetching, stale)
    /\ grouped \/ (NotJoined(object, slot, fetching, accepting) /\ stored.status # "joined")
    /\ Joining(object, slot, accepting, leftover)
    /\ running => Saved(object, slot, fetching, stored, due)

LEMMA LeastIsIn ==
  ASSUME NEW S \in SUBSET Object, S # {}
  PROVE  Min(S) \in S
  <1>1. \A y \in S : y = 1 \/ y = 2 \/ y = 3 \/ y = 4 \/ y = 5  BY DEF Object
  <1>2. \E x \in S : \A y \in S : x <= y
    <2>1. CASE 1 \in S  BY <1>1, <2>1
    <2>2. CASE 1 \notin S /\ 2 \in S  BY <1>1, <2>2
    <2>3. CASE 1 \notin S /\ 2 \notin S /\ 3 \in S  BY <1>1, <2>3
    <2>4. CASE 1 \notin S /\ 2 \notin S /\ 3 \notin S /\ 4 \in S  BY <1>1, <2>4
    <2>5. CASE 1 \notin S /\ 2 \notin S /\ 3 \notin S /\ 4 \notin S  BY <1>1, <2>5
    <2> QED  BY <2>1, <2>2, <2>3, <2>4, <2>5
  <1> QED  BY <1>2 DEF Min

\* An id is renamed by n, a hand by what it holds.
HolderOf(s, f, a) == <<s, f["poll"].held, f["init"].held, a["first"].held, a["second"].held>>

Names(s, f, a) ==
    [x \in 0..6 |-> IF x = 0 THEN 0 ELSE Min({i \in Object : HolderOf(s, f, a)[i] = x})]

IsRenamed(o, s, f, a, n, ob, sl, fe, ac) ==
    /\ sl = n[s]
    /\ ob = [i \in Object |-> IF n[HolderOf(s, f, a)[i]] = i THEN o[HolderOf(s, f, a)[i]] ELSE Gone]
    /\ fe = [p \in Syncer |-> [f[p] EXCEPT !.held = n[@]]]
    /\ ac = [c \in Accept |-> [a[c] EXCEPT !.held = n[@]]]

LEMMA HandsInHolder ==
  ASSUME NEW s, NEW f, NEW a, NEW x
  PROVE  /\ InHand(s, f, a, x) <=> \E i \in Object : HolderOf(s, f, a)[i] = x
         /\ InHand(s, f, a, s) /\ (\A p \in Syncer : InHand(s, f, a, f[p].held))
         /\ \A c \in Accept : InHand(s, f, a, a[c].held)
  <1> DEFINE h == HolderOf(s, f, a)
  <1>1. /\ h[1] = s /\ h[2] = f["poll"].held /\ h[3] = f["init"].held
        /\ h[4] = a["first"].held /\ h[5] = a["second"].held
    BY DEF HolderOf
  <1> HIDE DEF h
  <1>2. Object = {1, 2, 3, 4, 5}  BY DEF Object
  <1>3. InHand(s, f, a, x) <=> \E i \in Object : h[i] = x
    BY <1>1, <1>2 DEF InHand, Syncer, Accept
  <1> QED  BY <1>3 DEF h, InHand

LEMMA RenameNames ==
  ASSUME NEW o, NEW s, NEW f, NEW a, HandsTyped(s, f, a, 0..6), Rename(o, s, f, a)
  PROVE  IsRenamed(o, s, f, a, Names(s, f, a), object', slot', fetching', accepting')
  <1>1. s \in 0..6 /\ (\A p \in Syncer : f[p].held \in 0..6) /\ \A c \in Accept : a[c].held \in 0..6
    BY DEF HandsTyped, FetchesOf, AcceptsOf
  <1>2. \A i \in Object : HolderOf(s, f, a)[i] \in 0..6
    BY <1>1 DEF HolderOf, Object, Syncer, Accept
  <1>3. slot' = Names(s, f, a)[s]  BY <1>1 DEF Rename, Names, HolderOf
  <1>4. object' = [i \in Object |-> IF Names(s, f, a)[HolderOf(s, f, a)[i]] = i
                                    THEN o[HolderOf(s, f, a)[i]] ELSE Gone]
    BY <1>2 DEF Rename, Names, HolderOf
  <1>5. fetching' = [p \in Syncer |-> [f[p] EXCEPT !.held = Names(s, f, a)[@]]]
    BY <1>1 DEF Rename, Names, HolderOf
  <1>6. accepting' = [c \in Accept |-> [a[c] EXCEPT !.held = Names(s, f, a)[@]]]
    BY <1>1 DEF Rename, Names, HolderOf
  <1> QED  BY <1>3, <1>4, <1>5, <1>6 DEF IsRenamed

LEMMA NamesKeep ==
  ASSUME NEW s, NEW f, NEW a, HandsTyped(s, f, a, 0..6)
  PROVE  /\ Names(s, f, a)[0] = 0
         /\ \A x \in 1..6 : InHand(s, f, a, x) =>
              Names(s, f, a)[x] \in Object /\ HolderOf(s, f, a)[Names(s, f, a)[x]] = x
  <1>1. Names(s, f, a)[0] = 0  BY DEF Names
  <1>2. ASSUME NEW x \in 1..6, InHand(s, f, a, x)
        PROVE  Names(s, f, a)[x] \in Object /\ HolderOf(s, f, a)[Names(s, f, a)[x]] = x
    <2> DEFINE S == {i \in Object : HolderOf(s, f, a)[i] = x}
    <2>1. S # {}  BY <1>2, HandsInHolder
    <2>2. Min(S) \in S  BY <2>1, LeastIsIn
    <2>3. Names(s, f, a)[x] = Min(S)  BY DEF Names
    <2> QED  BY <2>2, <2>3
  <1> QED  BY <1>1, <1>2

\* What renaming leaves: each hand has its object, with what it was.
Carries(o, s, f, a, n, ob, sl, fe, ac) ==
    /\ (sl = 0 <=> s = 0) /\ ShownOf(ob, sl) = ShownOf(o, s)
    /\ \A p \in Syncer : /\ fe[p].at = f[p].at /\ fe[p].copy = f[p].copy /\ fe[p].changed = f[p].changed
                         /\ (fe[p].held = 0 <=> f[p].held = 0)
                         /\ f[p].held # 0 => ob[fe[p].held] = o[f[p].held]
    /\ \A c \in Accept : ac[c].at = a[c].at /\ (ac[c].held = 0 <=> a[c].held = 0)
    /\ \A y \in 1..6 : InHand(sl, fe, ac, y) => \E x \in 1..6 : InHand(s, f, a, x) /\ ob[y] = o[x]
    /\ \A y \in Object : ob[y] = Gone \/ \E x \in 1..6 : InHand(s, f, a, x) /\ ob[y] = o[x]
    /\ HandsTyped(sl, fe, ac, 0..5) /\ ob = [y \in Object |-> ob[y]]

LEMMA RenamedCarries ==
  ASSUME NEW o, NEW s, NEW f, NEW a, NEW n, NEW ob, NEW sl, NEW fe, NEW ac,
         HandsTyped(s, f, a, 0..6), IsRenamed(o, s, f, a, n, ob, sl, fe, ac), n[0] = 0,
         \A x \in 1..6 : InHand(s, f, a, x) => n[x] \in Object /\ HolderOf(s, f, a)[n[x]] = x
  PROVE  Carries(o, s, f, a, n, ob, sl, fe, ac)
  <1>1. /\ s \in 0..6 /\ \A p \in Syncer : f[p] \in FetchesOf(0..6)
        /\ \A c \in Accept : a[c] \in AcceptsOf(0..6)
    BY DEF HandsTyped
  <1>2. \A p \in Syncer : f[p].held \in 0..6  BY <1>1 DEF FetchesOf
  <1>3. \A c \in Accept : a[c].held \in 0..6  BY <1>1 DEF AcceptsOf
  <1>4. ASSUME NEW x \in 0..6, InHand(s, f, a, x), x # 0
        PROVE  n[x] \in Object /\ n[x] # 0 /\ ob[n[x]] = o[x]
    <2>1. x \in 1..6  BY <1>4
    <2>2. n[x] \in Object /\ HolderOf(s, f, a)[n[x]] = x  BY <1>4, <2>1
    <2>3. n[x] # 0  BY <2>2 DEF Object
    <2>4. ob[n[x]] = o[x]  BY <2>2 DEF IsRenamed
    <2> QED  BY <2>2, <2>3, <2>4
  <1>5. /\ InHand(s, f, a, s) /\ (\A p \in Syncer : InHand(s, f, a, f[p].held))
        /\ \A c \in Accept : InHand(s, f, a, a[c].held)
    BY DEF InHand
  <1>6. \A p \in Syncer :
          /\ fe[p].at = f[p].at /\ fe[p].copy = f[p].copy /\ fe[p].changed = f[p].changed
          /\ fe[p].held = n[f[p].held]
    BY <1>1 DEF IsRenamed, FetchesOf
  <1>7. \A c \in Accept : ac[c].at = a[c].at /\ ac[c].held = n[a[c].held]
    BY <1>1 DEF IsRenamed, AcceptsOf
  <1>8. sl = n[s]  BY DEF IsRenamed
  <1>9. (sl = 0 <=> s = 0) /\ ShownOf(ob, sl) = ShownOf(o, s)
    BY <1>1, <1>4, <1>5, <1>8 DEF ShownOf
  <1>10. \A p \in Syncer : /\ (fe[p].held = 0 <=> f[p].held = 0)
                           /\ f[p].held # 0 => ob[fe[p].held] = o[f[p].held]
    BY <1>2, <1>4, <1>5, <1>6
  <1>11. \A c \in Accept : (ac[c].held = 0 <=> a[c].held = 0)
    BY <1>3, <1>4, <1>5, <1>7
  <1>12. ASSUME NEW y \in 1..6, InHand(sl, fe, ac, y)
         PROVE  \E x \in 1..6 : InHand(s, f, a, x) /\ ob[y] = o[x]
    <2>1. PICK x \in 0..6 : InHand(s, f, a, x) /\ y = n[x]
      <3>1. CASE y = sl  BY <3>1, <1>1, <1>5, <1>8
      <3>2. CASE \E p \in Syncer : fe[p].held = y  BY <3>2, <1>2, <1>5, <1>6
      <3>3. CASE \E c \in Accept : ac[c].held = y  BY <3>3, <1>3, <1>5, <1>7
      <3> QED  BY <1>12, <3>1, <3>2, <3>3 DEF InHand
    <2>2. x # 0  BY <2>1
    <2>3. x \in 1..6  BY <2>2
    <2> QED  BY <1>4, <2>1, <2>2, <2>3
  <1>13. ASSUME NEW y \in Object
         PROVE  ob[y] = Gone \/ \E x \in 1..6 : InHand(s, f, a, x) /\ ob[y] = o[x]
    <2> DEFINE x == HolderOf(s, f, a)[y]
    <2>1. x \in 0..6 /\ InHand(s, f, a, x)
      <3>1. x \in 0..6  BY <1>1, <1>2, <1>3 DEF HolderOf, Object, Syncer, Accept
      <3> QED  BY <3>1, HandsInHolder
    <2>2. ob[y] = IF n[x] = y THEN o[x] ELSE Gone  BY DEF IsRenamed
    <2>3. y # 0  BY DEF Object
    <2>4. n[x] = y => x # 0  BY <2>3
    <2>5. n[x] = y => x \in 1..6  BY <2>1, <2>4
    <2> QED  BY <2>1, <2>2, <2>5
  <1>14. HandsTyped(sl, fe, ac, 0..5)
    <2>1. \A x \in 0..6 : InHand(s, f, a, x) => n[x] \in 0..5  BY <1>4 DEF Object
    <2>2. sl \in 0..5  BY <2>1, <1>1, <1>5, <1>8
    <2>3. ASSUME NEW p \in Syncer  PROVE [f[p] EXCEPT !.held = n[@]] \in FetchesOf(0..5)
      <3>1. n[f[p].held] \in 0..5  BY <2>1, <1>2, <1>5
      <3> QED  BY <1>1, <3>1 DEF FetchesOf
    <2>4. ASSUME NEW c \in Accept  PROVE [a[c] EXCEPT !.held = n[@]] \in AcceptsOf(0..5)
      <3>1. n[a[c].held] \in 0..5  BY <2>1, <1>3, <1>5
      <3> QED  BY <1>1, <3>1 DEF AcceptsOf
    <2> QED  BY <2>2, <2>3, <2>4 DEF HandsTyped, IsRenamed
  <1>15. ob = [y \in Object |-> ob[y]]  BY DEF IsRenamed
  <1> QED  BY <1>6, <1>7, <1>9, <1>10, <1>11, <1>12, <1>13, <1>14, <1>15 DEF Carries

LEMMA GoneIsRecord == Gone \in Records
  BY DEF Gone, Records, Statuses

\* The parts of the invariant hold of what renaming leaves.
LEMMA CarriedKeep ==
  ASSUME NEW o, NEW s, NEW f, NEW a, NEW n, NEW ob, NEW sl, NEW fe, NEW ac,
         AllOf(o, s, f, a, 0..6), Carries(o, s, f, a, n, ob, sl, fe, ac)
  PROVE  /\ ob \in [Object -> Records] /\ AllOf(ob, sl, fe, ac, 0..5)
         /\ NoneYet(s, f, a) => NoneYet(sl, fe, ac)
         /\ NotJoined(o, s, f, a) => NotJoined(ob, sl, fe, ac)
         /\ \A le : Joining(o, s, a, le) => Joining(ob, sl, ac, le)
         /\ \A d, du : Saved(o, s, f, d, du) => Saved(ob, sl, fe, d, du)
  <1>1. ob \in [Object -> Records]
    BY GoneIsRecord DEF AllOf, HeldIsReal, Carries
  <1>2. HeldIsReal(ob, sl, fe, ac)  BY DEF AllOf, HeldIsReal, Carries
  <1>3. Hands(fe, ac)  BY DEF AllOf, Hands, Carries
  <1>4. NoneYet(s, f, a) => NoneYet(sl, fe, ac)  BY DEF NoneYet, Carries
  <1>5. NotJoined(o, s, f, a) => NotJoined(ob, sl, fe, ac)  BY DEF NotJoined, Carries
  <1>6. \A le : Joining(o, s, a, le) => Joining(ob, sl, ac, le)  BY DEF Joining, Carries
  <1>7. \A d, du : Saved(o, s, f, d, du) => Saved(ob, sl, fe, d, du)  BY DEF Saved, Carries
  <1> QED  BY <1>1, <1>2, <1>3, <1>4, <1>5, <1>6, <1>7 DEF AllOf, Carries

LEMMA CarriedKeepStatus ==
  ASSUME NEW o, NEW s, NEW f, NEW a, NEW n, NEW ob, NEW sl, NEW fe, NEW ac, NEW st,
         AllOf(o, s, f, a, 0..6), Carries(o, s, f, a, n, ob, sl, fe, ac), KeepsStatus(o, s, f, st)
  PROVE  KeepsStatus(ob, sl, fe, st)
  <1>1. ASSUME NEW p \in Syncer, ~st[p], sl # 0
        PROVE  /\ fe[p].at = "unlock" => ob[sl].status = "pending"
               /\ fe[p].at = "preview" => fe[p].copy.status = ob[sl].status
               /\ fe[p].at = "second" => ob[fe[p].held].status = ob[sl].status
    <2>1. s # 0 /\ ob[sl] = o[s]  BY <1>1 DEF Carries, ShownOf
    <2>2. fe[p].at = f[p].at /\ fe[p].copy = f[p].copy  BY DEF Carries
    <2>3. f[p].at = "second" => ob[fe[p].held] = o[f[p].held]
      BY DEF Carries, AllOf, Hands
    <2> QED  BY <1>1, <2>1, <2>2, <2>3 DEF KeepsStatus
  <1> QED  BY <1>1 DEF KeepsStatus

\* A step that renames keeps the invariant if its parts hold of what it renames.
Ready(o, s, f, a, st, le, du, gr) ==
    /\ AllOf(o, s, f, a, 0..6) /\ NoneYet(s, f, a) /\ KeepsStatus(o, s, f, st)
    /\ gr \/ (NotJoined(o, s, f, a) /\ stored.status # "joined")
    /\ Joining(o, s, a, le) /\ Saved(o, s, f, stored, du)

LEMMA RenameKeeps ==
  ASSUME InviteInv, NEW o, NEW s, NEW f, NEW a, Rename(o, s, f, a), running,
         Ready(o, s, f, a, stale', leftover', due', grouped'),
         {grouped', due', leftover'} \subseteq BOOLEAN, stale' \in [Syncer -> BOOLEAN],
         UNCHANGED <<offered, stored, running, restarts>>
  PROVE  InviteInv'
  <1>1. HandsTyped(s, f, a, 0..6)  BY DEF Ready, AllOf
  <1>2. Carries(o, s, f, a, Names(s, f, a), object', slot', fetching', accepting')
    BY <1>1, RenameNames, NamesKeep, RenamedCarries
  <1>3. /\ object' \in [Object -> Records] /\ AllOf(object', slot', fetching', accepting', 0..5)
        /\ NoneYet(slot', fetching', accepting')
        /\ NotJoined(o, s, f, a) => NotJoined(object', slot', fetching', accepting')
        /\ Joining(object', slot', accepting', leftover')
        /\ Saved(object', slot', fetching', stored, due')
    BY <1>2, CarriedKeep DEF Ready
  <1>4. KeepsStatus(object', slot', fetching', stale')  BY <1>2, CarriedKeepStatus DEF Ready
  <1> QED  BY <1>3, <1>4 DEF InviteInv, Ready

-----------------------------------------------------------------------------
(* The steps *)

LEMMA WithGives ==
  ASSUME InviteInv, NEW r
  PROVE  With(r)[New] = r /\ \A x \in Object : With(r)[x] = object[x]
  <1>1. DOMAIN object = Object  BY DEF InviteInv
  <1>2. New \notin Object  BY DEF New, Object
  <1> QED  BY <1>1, <1>2 DEF With

LEMMA WiderHands ==
  ASSUME InviteInv
  PROVE  HandsTyped(slot, fetching, accepting, 0..6)
  <1>1. \A q \in Syncer : fetching[q] \in FetchesOf(0..5)  BY DEF InviteInv, AllOf, HandsTyped
  <1>2. \A q \in Syncer : fetching[q] \in FetchesOf(0..6)  BY <1>1 DEF FetchesOf
  <1>3. \A c \in Accept : accepting[c] \in AcceptsOf(0..5)  BY DEF InviteInv, AllOf, HandsTyped
  <1>4. \A c \in Accept : accepting[c] \in AcceptsOf(0..6)  BY <1>3 DEF AcceptsOf
  <1>5. slot \in 0..6  BY DEF InviteInv, AllOf, HandsTyped
  <1> QED  BY <1>2, <1>4, <1>5 DEF InviteInv, AllOf, HandsTyped

LEMMA InHandInMap ==
  ASSUME InviteInv, NEW x \in 1..6, InHand(slot, fetching, accepting, x)
  PROVE  x \in Object /\ object[x] \in Records /\ object[x].status # "gone"
  <1>1. x \in 0..5
    BY DEF InHand, InviteInv, AllOf, HandsTyped, FetchesOf, AcceptsOf
  <1> QED  BY <1>1 DEF Object, InviteInv, AllOf, HeldIsReal

\* Where the second loop leaves the sync p: in the second loop with the object
\* of the map, or at its end.
Moves(p, s, ch, f) ==
    /\ f \in [Syncer -> FetchesOf(0..6)] /\ \A q \in Syncer : q # p => f[q] = fetching[q]
    /\ f[p].copy = Gone /\ f[p].changed = ch
    /\ (f[p].at = "second" /\ f[p].held = s /\ s # 0) \/ (f[p].at = "end" /\ f[p].held = 0)

LEMMA EndGives ==
  ASSUME InviteInv, NEW p \in Syncer, NEW s, NEW ch \in BOOLEAN
  PROVE  Moves(p, s, ch, [fetching EXCEPT ![p] = AtEnd(ch)])
  <1>1. fetching \in [Syncer -> FetchesOf(0..6)]  BY WiderHands DEF HandsTyped
  <1>2. AtEnd(ch) \in FetchesOf(0..6)  BY GoneIsRecord DEF FetchesOf, FetchSteps, AtEnd
  <1> QED  BY <1>1, <1>2 DEF Moves, AtEnd

LEMMA SecondLoopGives ==
  ASSUME InviteInv, NEW p \in Syncer, NEW s \in 0..6, NEW r, NEW ch \in BOOLEAN
  PROVE  Moves(p, s, ch, SecondLoop(p, s, r, ch))
  <1>1. fetching \in [Syncer -> FetchesOf(0..6)]  BY WiderHands DEF HandsTyped
  <1>2. [at |-> "second", held |-> s, copy |-> Gone, changed |-> ch] \in FetchesOf(0..6)
    BY GoneIsRecord DEF FetchesOf, FetchSteps
  <1> QED  BY <1>1, <1>2, EndGives DEF SecondLoop, Moves

\* The map keeps what it has, or gets a new object with the fields r.
Either(p, o, s, r, ch) ==
    \/ o = object /\ s = slot /\ r = Shown /\ ch = fetching[p].changed
    \/ o = With(r) /\ s = New /\ r \in Records /\ r.status # "gone" /\ ch = TRUE

MovesReady(p, o, s, r, f) ==
    /\ s \in 0..6 /\ ShownOf(o, s) = (IF s = 0 THEN Gone ELSE r) /\ (s # 0 => o[s] = r)
    /\ \A x \in Object : o[x] = object[x]
    /\ AllOf(o, s, f, accepting, 0..6) /\ NoneYet(s, f, accepting)
    /\ grouped \/ (NotJoined(o, s, f, accepting) /\ stored.status # "joined")
    /\ Saved(o, s, f, stored, due)

LEMMA MovesAreReady ==
  ASSUME InviteInv, running, NEW p \in Syncer, NEW o, NEW s, NEW r, NEW ch \in BOOLEAN, NEW f,
         Either(p, o, s, r, ch), Moves(p, s, ch, f), r.status = "joined" => grouped
  PROVE  MovesReady(p, o, s, r, f)
  <1>1. s \in 0..6 /\ (s = slot \/ s = New)
    BY DEF Either, New, InviteInv, AllOf, HandsTyped
  <1>2. /\ f \in [Syncer -> FetchesOf(0..6)] /\ (\A q \in Syncer : q # p => f[q] = fetching[q])
        /\ f[p].copy = Gone /\ f[p].changed = ch
        /\ (f[p].at = "second" /\ f[p].held = s /\ s # 0) \/ (f[p].at = "end" /\ f[p].held = 0)
    BY DEF Moves
  <1>3. \A x \in Object : o[x] = object[x]  BY WithGives DEF Either
  <1>4. s # 0 => o[s] = r
    BY <1>1, WithGives DEF Either, Shown
  <1>5. ShownOf(o, s) = IF s = 0 THEN Gone ELSE r  BY <1>4 DEF ShownOf
  <1>6. s = New => o[s] = r /\ r \in Records /\ r.status # "gone"
    BY WithGives DEF Either, New, InviteInv, AllOf, HandsTyped
  <1>7. \A x \in 1..6 : InHand(s, f, accepting, x)
          => (x = New /\ s = New) \/ InHand(slot, fetching, accepting, x)
    BY <1>1, <1>2 DEF InHand
  <1>8. HeldIsReal(o, s, f, accepting)
    BY <1>3, <1>6, <1>7, InHandInMap DEF HeldIsReal
  <1>9. Hands(f, accepting)
    <2>1. Hands(fetching, accepting)  BY DEF InviteInv, AllOf
    <2> QED  BY <1>2, <2>1 DEF Hands
  <1>10. HandsTyped(s, f, accepting, 0..6)
    BY <1>1, <1>2, WiderHands DEF HandsTyped
  <1>11. NoneYet(s, f, accepting)
    <2>1. s = 0 => slot = 0  BY <1>1 DEF New
    <2> QED  BY <1>2, <2>1 DEF NoneYet, InviteInv
  <1>12. r.status # "joined" /\ NotJoined(object, slot, fetching, accepting)
           => NotJoined(o, s, f, accepting)
    <2> SUFFICES ASSUME r.status # "joined", NotJoined(object, slot, fetching, accepting)
                 PROVE  NotJoined(o, s, f, accepting)
      OBVIOUS
    <2>1. ASSUME NEW x \in 1..6, InHand(s, f, accepting, x)  PROVE o[x].status # "joined"
      <3>1. CASE x = New /\ s = New  BY <1>6, <3>1
      <3>2. CASE InHand(slot, fetching, accepting, x)  BY <3>2, <1>3, InHandInMap DEF NotJoined
      <3> QED  BY <2>1, <1>7, <3>1, <3>2
    <2>2. \A q \in Syncer : f[q].copy.status # "joined"  BY <1>2 DEF NotJoined, Gone
    <2> QED  BY <2>1, <2>2 DEF NotJoined
  <1>13. grouped \/ (NotJoined(o, s, f, accepting) /\ stored.status # "joined")
    BY <1>12 DEF InviteInv
  <1>14. Saved(o, s, f, stored, due)
    <2>1. CASE ch = TRUE  BY <1>2, <2>1 DEF Saved
    <2>2. CASE o = object /\ s = slot /\ ch = fetching[p].changed
      <3>1. Saved(object, slot, fetching, stored, due)  BY DEF InviteInv
      <3>2. \A q \in Syncer : f[q].changed = fetching[q].changed  BY <1>2, <2>2
      <3> QED  BY <2>2, <3>1, <3>2 DEF Saved
    <2> QED  BY <2>1, <2>2 DEF Either
  <1> QED  BY <1>1, <1>3, <1>4, <1>5, <1>8, <1>9, <1>10, <1>11, <1>13, <1>14 DEF AllOf, MovesReady

\* A step of a sync that is in its second loop or ends keeps the invariant.
LEMMA MovesKeep ==
  ASSUME InviteInv, running, NEW p \in Syncer, NEW o, NEW s, NEW r, NEW ch \in BOOLEAN, NEW f,
         Either(p, o, s, r, ch), Moves(p, s, ch, f), r.status = "joined" => grouped,
         Rename(o, s, f, accepting), stale' \in [Syncer -> BOOLEAN], leftover' \in BOOLEAN,
         UNCHANGED <<offered, grouped, due, stored, running, restarts>>,
         KeepsStatus(o, s, f, stale'), s # 0 => Joining(o, s, accepting, leftover')
  PROVE  InviteInv'
  <1>1. MovesReady(p, o, s, r, f)  BY MovesAreReady
  <1>2. Joining(o, s, accepting, leftover')  BY <1>1 DEF MovesReady, Joining, Gone
  <1>3. Ready(o, s, f, accepting, stale', leftover', due', grouped')
    BY <1>1, <1>2 DEF Ready, MovesReady
  <1> QED  BY <1>3, RenameKeeps DEF InviteInv

LEMMA ShownIsReal ==
  ASSUME InviteInv
  PROVE  /\ Shown \in Records /\ (slot # 0 => Shown.status # "gone")
         /\ (slot # 0 => slot \in Object /\ Shown = object[slot])
         /\ Shown = ShownOf(object, slot) /\ (Shown.status = "joined" => grouped)
  <1>1. slot # 0 => slot \in 1..6 /\ InHand(slot, fetching, accepting, slot)
    BY DEF InHand, InviteInv, AllOf, HandsTyped
  <1>2. slot # 0 => slot \in Object /\ object[slot] \in Records /\ object[slot].status # "gone"
    BY <1>1, InHandInMap
  <1>3. Shown.status = "joined" => grouped
    BY <1>1 DEF Shown, Gone, InviteInv, NotJoined
  <1> QED  BY <1>2, <1>3, GoneIsRecord DEF Shown, ShownOf

\* Of the statuses that a sync may rely on, those of the others are as before.
LEMMA OthersKeepStatus ==
  ASSUME InviteInv, NEW p \in Syncer, NEW o, NEW s, NEW f, NEW st, s # 0,
         \A x \in Object : o[x] = object[x], \A q \in Syncer : q # p => f[q] = fetching[q],
         \A q \in Syncer : q # p /\ ~st[q] => ~stale[q],
         slot # 0, o[s].status = object[slot].status \/ \A q \in Syncer : q # p => st[q],
         ~st[p] => f[p].at \notin {"unlock", "preview"}
                   /\ (f[p].at = "second" => o[f[p].held].status = o[s].status)
  PROVE  KeepsStatus(o, s, f, st)
  <1>1. ASSUME NEW q \in Syncer, ~st[q]
        PROVE  /\ f[q].at = "unlock" => o[s].status = "pending"
               /\ f[q].at = "preview" => f[q].copy.status = o[s].status
               /\ f[q].at = "second" => o[f[q].held].status = o[s].status
    <2>1. CASE q = p  BY <1>1, <2>1
    <2>2. CASE q # p
      <3>1. ~stale[q] /\ f[q] = fetching[q] /\ o[s].status = object[slot].status  BY <1>1, <2>2
      <3>2. f[q].at = "second" => fetching[q].held \in Object
        BY <3>1 DEF InviteInv, AllOf, Hands, HandsTyped, FetchesOf, Object
      <3> QED  BY <3>1, <3>2, ShownIsReal DEF InviteInv, KeepsStatus
    <2> QED  BY <2>1, <2>2
  <1> QED  BY <1>1 DEF KeepsStatus

\* A sync that goes on to unlock or to derive holds no object.
EmptyHand(p, at, c, f) ==
    /\ at \in {"unlock", "preview"} /\ c \in Records
    /\ at = "unlock" => c = Gone
    /\ at = "preview" => c.status # "gone" /\ (slot = 0 => c.status = "pending")
    /\ c.status = "joined" => grouped
    /\ f = [fetching EXCEPT ![p] = Empty(at, c)]

EmptyReady(p, at, c, f) ==
    /\ AllOf(object, slot, f, accepting, 0..6) /\ NoneYet(slot, f, accepting)
    /\ grouped \/ (NotJoined(object, slot, f, accepting) /\ stored.status # "joined")
    /\ Joining(object, slot, accepting, leftover) /\ Saved(object, slot, f, stored, due)
    /\ f[p].at = at /\ f[p].copy = c /\ \A q \in Syncer : q # p => f[q] = fetching[q]

LEMMA EmptyHandReady ==
  ASSUME InviteInv, running, NEW p \in Syncer, fetching[p].at \in {"ask", "unlock"},
         NEW at, NEW c, NEW f, EmptyHand(p, at, c, f)
  PROVE  EmptyReady(p, at, c, f)
  <1> USE DEF EmptyHand
  <1>0. fetching \in [Syncer -> FetchesOf(0..6)]  BY WiderHands DEF HandsTyped
  <1>1. /\ Empty(at, c) \in FetchesOf(0..6) /\ Empty(at, c).at = at /\ Empty(at, c).held = 0
        /\ Empty(at, c).copy = c /\ Empty(at, c).changed = FALSE
    BY DEF Empty, FetchesOf, FetchSteps
  <1>2. /\ f \in [Syncer -> FetchesOf(0..6)] /\ (\A q \in Syncer : q # p => f[q] = fetching[q])
        /\ f[p].at = at /\ f[p].held = 0 /\ f[p].copy = c /\ f[p].changed = FALSE
    BY <1>0, <1>1
  <1>3. Hands(fetching, accepting) /\ ~fetching[p].changed /\ fetching[p].held = 0
    BY DEF InviteInv, AllOf, Hands
  <1>4. Hands(f, accepting)  BY <1>2, <1>3 DEF Hands
  <1>5. \A x \in 1..6 : InHand(slot, f, accepting, x) => InHand(slot, fetching, accepting, x)
    BY <1>2 DEF InHand
  <1>6. HeldIsReal(object, slot, f, accepting)  BY <1>5, InHandInMap DEF HeldIsReal
  <1>7. HandsTyped(slot, f, accepting, 0..6)  BY <1>2, WiderHands DEF HandsTyped
  <1>8. NoneYet(slot, f, accepting)  BY <1>2 DEF InviteInv, NoneYet
  <1>9. grouped \/ (NotJoined(object, slot, f, accepting) /\ stored.status # "joined")
    BY <1>2, <1>5 DEF InviteInv, NotJoined
  <1>10. Saved(object, slot, f, stored, due)  BY <1>2, <1>3 DEF InviteInv, Saved
  <1> QED  BY <1>2, <1>4, <1>6, <1>7, <1>8, <1>9, <1>10 DEF AllOf, InviteInv, EmptyReady

LEMMA FetchedKeeps ==
  ASSUME InviteInv, NEW p \in Syncer, Fetched(p)
  PROVE  InviteInv'
  <1>1. /\ running /\ fetching[p].at = "ask" /\ stale' = [stale EXCEPT ![p] = FALSE]
        /\ UNCHANGED <<offered, grouped, due, stored, running, restarts, leftover>>
    BY DEF Fetched
  <1>2. /\ {grouped, due, leftover} \subseteq BOOLEAN /\ stale' \in [Syncer -> BOOLEAN]
        /\ stale'[p] = FALSE /\ (\A q \in Syncer : q # p => stale'[q] = stale[q])
        /\ Joining(object, slot, accepting, leftover)
    BY <1>1 DEF InviteInv
  <1>3. fetching[p] = [at |-> "ask", held |-> 0, copy |-> Gone, changed |-> FALSE]
    BY <1>1 DEF InviteInv, AllOf, Hands, HandsTyped, FetchesOf
  <1>4. ASSUME NEW o, NEW s, NEW ch \in BOOLEAN, Either(p, o, s, Shown, ch),
               Rename(o, s, SecondLoop(p, s, Shown, ch), accepting)
        PROVE  InviteInv'
    <2> DEFINE f == SecondLoop(p, s, Shown, ch)
    <2>1. s \in 0..6  BY <1>4 DEF Either, New, InviteInv, AllOf, HandsTyped
    <2>2. Moves(p, s, ch, f)  BY <2>1, SecondLoopGives
    <2> HIDE DEF f
    <2>3. MovesReady(p, o, s, Shown, f)  BY <1>1, <1>4, <2>2, ShownIsReal, MovesAreReady
    <2>4. s # 0 => slot # 0 /\ o[s] = Shown /\ Shown = object[slot]
      BY <1>4, <2>3, ShownIsReal DEF Either, MovesReady, Shown, Gone
    <2>5. s # 0 => KeepsStatus(o, s, f, stale')
      BY <1>2, <2>2, <2>3, <2>4, OthersKeepStatus DEF Moves, MovesReady
    <2>6. KeepsStatus(o, s, f, stale')  BY <2>5 DEF KeepsStatus
    <2>7. s # 0 => Joining(o, s, accepting, leftover')
      BY <1>1, <1>2, <2>3, <2>4, ShownIsReal DEF Joining, MovesReady
    <2> QED  BY <1>1, <1>2, <1>4, <2>2, <2>6, <2>7, ShownIsReal, MovesKeep DEF f
  <1>5. ASSUME NEW at \in {"unlock", "preview"}, NEW c \in Records, NEW f,
               f = [fetching EXCEPT ![p] = Empty(at, c)],
               \/ at = "unlock" /\ c = Gone /\ slot = 0
               \/ at = "preview" /\ c = Shown /\ slot # 0,
               Rename(object, slot, f, accepting)
        PROVE  InviteInv'
    <2>1. EmptyHand(p, at, c, f)  BY <1>5, ShownIsReal DEF EmptyHand, Gone
    <2>2. EmptyReady(p, at, c, f)  BY <1>1, <2>1, EmptyHandReady
    <2>3. KeepsStatus(object, slot, f, stale')
      BY <1>2, <1>5, <2>2, ShownIsReal DEF EmptyReady, InviteInv, KeepsStatus
    <2>4. Ready(object, slot, f, accepting, stale', leftover', due', grouped')
      BY <1>1, <2>2, <2>3 DEF Ready, EmptyReady
    <2> QED  BY <1>1, <1>2, <1>5, <2>4, RenameKeeps
  <1>6. CASE /\ offered /\ slot # 0
             /\ Rename(With(Shown), New, SecondLoop(p, New, Shown, TRUE), accepting)
    <2>1. Either(p, With(Shown), New, Shown, TRUE)  BY <1>6, ShownIsReal DEF Either
    <2> QED  BY <1>4, <1>6, <2>1
  <1>7. CASE slot = 0 /\ Rename(object, slot, [fetching EXCEPT ![p] = Empty("unlock", Gone)], accepting)
    BY <1>5, <1>7, GoneIsRecord
  <1>8. CASE slot # 0 /\ Rename(object, slot, [fetching EXCEPT ![p] = Empty("preview", Shown)], accepting)
    BY <1>5, <1>8, ShownIsReal
  <1>9. CASE Rename(object, slot, SecondLoop(p, slot, Shown, FALSE), accepting)
    <2>1. fetching[p].changed = FALSE  BY <1>3
    <2>2. Either(p, object, slot, Shown, FALSE)  BY <2>1, Zenon DEF Either
    <2> QED  BY <1>4, <1>9, <2>2
  <1> QED  BY <1>6, <1>7, <1>8, <1>9 DEF Fetched

LEMMA UnlockedKeeps ==
  ASSUME InviteInv, NEW p \in Syncer, Unlocked(p)
  PROVE  InviteInv'
  <1>1. /\ running /\ fetching[p].at = "unlock"
        /\ UNCHANGED <<offered, grouped, due, stored, running, restarts, stale, leftover>>
    BY DEF Unlocked
  <1>2. /\ {grouped, due, leftover} \subseteq BOOLEAN /\ stale \in [Syncer -> BOOLEAN]
        /\ Joining(object, slot, accepting, leftover)
    BY DEF InviteInv
  <1>3. CASE Rename(object, slot, [fetching EXCEPT ![p] = Empty("preview", Fresh)], accepting)
    <2> DEFINE f == [fetching EXCEPT ![p] = Empty("preview", Fresh)]
    <2>1. Fresh \in Records /\ Fresh.status = "pending"  BY DEF Fresh, Records, Statuses
    <2>2. EmptyHand(p, "preview", Fresh, f)  BY <2>1 DEF EmptyHand
    <2> HIDE DEF f
    <2>3. EmptyReady(p, "preview", Fresh, f)  BY <1>1, <2>2, EmptyHandReady
    <2>4. KeepsStatus(object, slot, fetching, stale)  BY DEF InviteInv
    <2>5. KeepsStatus(object, slot, f, stale)
      BY <1>1, <2>1, <2>3, <2>4 DEF EmptyReady, KeepsStatus
    <2>6. Ready(object, slot, f, accepting, stale', leftover', due', grouped')
      BY <1>1, <2>3, <2>5 DEF Ready, EmptyReady
    <2> QED  BY <1>1, <1>2, <1>3, <2>6, RenameKeeps DEF f
  <1>4. CASE Rename(object, slot, SecondLoop(p, slot, Shown, FALSE), accepting)
    <2> DEFINE f == SecondLoop(p, slot, Shown, FALSE)
    <2>1. slot \in 0..6  BY WiderHands DEF HandsTyped
    <2>2. Moves(p, slot, FALSE, f)  BY <2>1, SecondLoopGives
    <2> HIDE DEF f
    <2>3. fetching[p].changed = FALSE  BY <1>1 DEF InviteInv, AllOf, Hands, HandsTyped, FetchesOf
    <2>4. Either(p, object, slot, Shown, FALSE)  BY <2>3, Zenon DEF Either
    <2>5. slot # 0 => KeepsStatus(object, slot, f, stale)
      BY <2>2, OthersKeepStatus DEF Moves
    <2>6. KeepsStatus(object, slot, f, stale)  BY <2>5 DEF KeepsStatus
    <2> QED  BY <1>1, <1>2, <1>4, <2>2, <2>4, <2>6, ShownIsReal, MovesKeep DEF f
  <1> QED  BY <1>3, <1>4 DEF Unlocked

LEMMA StoresKeeps ==
  ASSUME InviteInv, NEW p \in Syncer, Stores(p)
  PROVE  InviteInv'
  <1>1. PICK found \in BOOLEAN :
          /\ Rename(With(Enriched(fetching[p].copy, found)), New,
                    SecondLoop(p, New, Enriched(fetching[p].copy, found), TRUE), accepting)
          /\ leftover' = Unheld(Enriched(fetching[p].copy, found), p)
    BY DEF Stores
  <1> DEFINE c == fetching[p].copy
             r == Enriched(c, found)
             f == SecondLoop(p, New, r, TRUE)
  <1>2. /\ running /\ fetching[p].at = "preview"
        /\ stale' = [q \in Syncer |-> stale[q] \/ (q # p /\ slot # 0 /\ stale[p])]
        /\ UNCHANGED <<offered, grouped, due, stored, running, restarts>>
    BY DEF Stores
  <1>3. c \in Records /\ c.status # "gone" /\ (slot = 0 => c.status = "pending")
    BY <1>2 DEF InviteInv, AllOf, HandsTyped, FetchesOf, Hands, NoneYet
  <1>4. r \in Records /\ r.status = c.status  BY <1>3 DEF Enriched, Records
  <1>5. r.status = "joined" => grouped  BY <1>4 DEF InviteInv, NotJoined
  <1>6. leftover' = (c.status = "joining" /\ (stale[p] \/ leftover))
    BY <1>1, <1>4 DEF Unheld
  <1> HIDE DEF r
  <1>7. Moves(p, New, TRUE, f)
    <2>1. New \in 0..6  BY DEF New
    <2> QED  BY <2>1, SecondLoopGives
  <1> HIDE DEF f, c
  <1>8. Either(p, With(r), New, r, TRUE)  BY <1>3, <1>4 DEF Either
  <1>9. MovesReady(p, With(r), New, r, f)  BY <1>2, <1>5, <1>7, <1>8, MovesAreReady
  <1>10. With(r)[New] = r /\ (\A x \in Object : With(r)[x] = object[x]) /\ New # 0
    BY WithGives DEF New
  <1>11. /\ stale \in [Syncer -> BOOLEAN] /\ leftover \in BOOLEAN
         /\ Joining(object, slot, accepting, leftover) /\ NoneYet(slot, fetching, accepting)
         /\ KeepsStatus(object, slot, fetching, stale)
    BY DEF InviteInv
  <1>12. slot # 0 /\ ~stale[p] => c.status = object[slot].status
    BY <1>2, <1>11 DEF KeepsStatus, c
  <1>13. KeepsStatus(With(r), New, f, stale')
    <2>1. CASE slot = 0
      <3>1. \A q \in Syncer : q # p => f[q].at # "second"
        BY <1>7, <1>11, <2>1 DEF Moves, NoneYet
      <3>2. \A q \in Syncer : q # p /\ f[q].at = "preview" => f[q].copy.status = "pending"
        BY <1>7, <1>11, <2>1 DEF Moves, NoneYet
      <3> QED  BY <1>3, <1>4, <1>7, <1>10, <2>1, <3>1, <3>2 DEF KeepsStatus, Moves
    <2>2. CASE slot # 0
      <3>1. With(r)[New].status = object[slot].status \/ \A q \in Syncer : q # p => stale'[q]
        BY <1>2, <1>4, <1>10, <1>12, <2>2
      <3>2. \A q \in Syncer : q # p /\ ~stale'[q] => ~stale[q]  BY <1>2
      <3> QED  BY <1>7, <1>10, <2>2, <3>1, <3>2, OthersKeepStatus DEF Moves
    <2> QED  BY <2>1, <2>2
  <1>14. Joining(With(r), New, accepting, leftover')
    BY <1>3, <1>4, <1>6, <1>10, <1>11, <1>12 DEF Joining, ShownOf
  <1>15. stale' \in [Syncer -> BOOLEAN] /\ leftover' \in BOOLEAN  BY <1>2, <1>6, <1>11
  <1>16. Rename(With(r), New, f, accepting)  BY <1>1 DEF r, f, c
  <1> QED  BY <1>2, <1>5, <1>7, <1>8, <1>13, <1>14, <1>15, <1>16, MovesKeep

LEMMA StoresSecondKeeps ==
  ASSUME InviteInv, NEW p \in Syncer, StoresSecond(p)
  PROVE  InviteInv'
  <1> DEFINE h == fetching[p].held
             old == object[h]
             r == Enriched(old, TRUE)
             HasEnded(ch) == [fetching EXCEPT ![p] = AtEnd(ch)]
  <1>1. /\ running /\ fetching[p].at = "second"
        /\ UNCHANGED <<offered, grouped, due, stored, running, restarts>>
    BY DEF StoresSecond
  <1>2. h \in 1..6 /\ InHand(slot, fetching, accepting, h) /\ slot # 0
    BY <1>1 DEF InviteInv, AllOf, HandsTyped, FetchesOf, Hands, NoneYet, InHand
  <1>3. h \in Object /\ old \in Records /\ old.status # "gone"  BY <1>2, InHandInMap
  <1>4. r \in Records /\ r.status = old.status  BY <1>3 DEF Enriched, Records
  <1>5. r.status = "joined" => grouped  BY <1>2, <1>4 DEF InviteInv, NotJoined
  <1>6. /\ stale \in [Syncer -> BOOLEAN] /\ leftover \in BOOLEAN
        /\ Joining(object, slot, accepting, leftover)
        /\ KeepsStatus(object, slot, fetching, stale)
    BY DEF InviteInv
  <1>7. ~stale[p] => old.status = object[slot].status
    BY <1>1, <1>2, <1>6 DEF KeepsStatus
  <1>8. fetching[p].changed \in BOOLEAN  BY DEF InviteInv, AllOf, HandsTyped, FetchesOf
  <1>9. CASE /\ Rename(With(r), New, HasEnded(TRUE), accepting)
             /\ leftover' = Unheld(old, p)
             /\ stale' = [q \in Syncer |-> stale[q] \/ (q # p /\ slot # h)]
    <2> DEFINE f == HasEnded(TRUE)
    <2>1. Moves(p, New, TRUE, f) /\ f[p].at = "end"
      <3>1. DOMAIN fetching = Syncer  BY DEF InviteInv, AllOf, HandsTyped
      <3> QED  BY <3>1, EndGives DEF AtEnd
    <2> HIDE DEF f, r
    <2>2. Either(p, With(r), New, r, TRUE)  BY <1>3, <1>4 DEF Either
    <2>3. With(r)[New] = r /\ (\A x \in Object : With(r)[x] = object[x]) /\ New # 0
      BY WithGives DEF New
    <2>4. KeepsStatus(With(r), New, f, stale')
      <3>1. With(r)[New].status = object[slot].status \/ \A q \in Syncer : q # p => stale'[q]
        BY <1>4, <1>9, <2>3
      <3>2. \A q \in Syncer : q # p /\ ~stale'[q] => ~stale[q]  BY <1>9
      <3> QED  BY <1>2, <2>1, <2>3, <3>1, <3>2, OthersKeepStatus DEF Moves
    <2>5. leftover' = (old.status = "joining" /\ (stale[p] \/ leftover))
      BY <1>9 DEF Unheld
    <2>6. Joining(With(r), New, accepting, leftover')
      BY <1>2, <1>4, <1>6, <1>7, <2>3, <2>5 DEF Joining, ShownOf
    <2>7. stale' \in [Syncer -> BOOLEAN] /\ leftover' \in BOOLEAN  BY <1>6, <1>9, <2>5
    <2>8. Rename(With(r), New, f, accepting)  BY <1>9 DEF f
    <2> QED  BY <1>1, <1>5, <2>1, <2>2, <2>4, <2>6, <2>7, <2>8, MovesKeep
  <1>10. CASE /\ Rename(object, slot, HasEnded(fetching[p].changed), accepting)
              /\ UNCHANGED <<leftover, stale>>
    <2> DEFINE ch == fetching[p].changed
               f == HasEnded(ch)
    <2>1. Moves(p, slot, ch, f) /\ f[p].at = "end"
      <3>1. DOMAIN fetching = Syncer  BY DEF InviteInv, AllOf, HandsTyped
      <3> QED  BY <1>8, <3>1, EndGives DEF AtEnd
    <2>2. Either(p, object, slot, Shown, ch)  BY Zenon DEF Either
    <2>3. Rename(object, slot, f, accepting)  BY <1>10
    <2> HIDE DEF f, ch
    <2>4. KeepsStatus(object, slot, f, stale')
      BY <1>2, <1>10, <2>1, OthersKeepStatus DEF Moves
    <2>5. ch \in BOOLEAN  BY <1>8 DEF ch
    <2> QED  BY <1>1, <1>6, <1>10, <2>1, <2>2, <2>3, <2>4, <2>5, ShownIsReal, MovesKeep
  <1> QED  BY <1>9, <1>10 DEF StoresSecond

\* A sync begins or ends: it holds nothing before nor after.
LEMMA HandKeeps ==
  ASSUME InviteInv, running, NEW p \in Syncer, NEW at \in {"idle", "ask"},
         fetching[p].at \in {"idle", "end"}, fetching' = [fetching EXCEPT ![p] = Empty(at, Gone)],
         due' = (due \/ fetching[p].changed), stale' \in [Syncer -> BOOLEAN],
         \A q \in Syncer : q # p /\ ~stale'[q] => ~stale[q],
         UNCHANGED <<offered, slot, object, grouped, accepting, stored, running, restarts, leftover>>
  PROVE  InviteInv'
  <1>1. fetching \in [Syncer -> FetchesOf(0..5)]  BY DEF InviteInv, AllOf, HandsTyped
  <1>2. /\ Empty(at, Gone) \in FetchesOf(0..5) /\ Empty(at, Gone).at = at
        /\ Empty(at, Gone).held = 0 /\ Empty(at, Gone).copy = Gone
        /\ Empty(at, Gone).changed = FALSE
    BY GoneIsRecord DEF Empty, FetchesOf, FetchSteps
  <1>3. /\ fetching' \in [Syncer -> FetchesOf(0..5)]
        /\ (\A q \in Syncer : q # p => fetching'[q] = fetching[q]) /\ fetching'[p].at = at
        /\ fetching'[p].held = 0 /\ fetching'[p].copy = Gone /\ fetching'[p].changed = FALSE
    BY <1>1, <1>2
  <1>4. Hands(fetching, accepting) /\ fetching[p].held = 0
    BY DEF InviteInv, AllOf, Hands
  <1>5. Hands(fetching', accepting)  BY <1>3, <1>4 DEF Hands
  <1>6. \A x \in 1..6 : InHand(slot, fetching', accepting, x) => InHand(slot, fetching, accepting, x)
    BY <1>3 DEF InHand
  <1>7. HeldIsReal(object, slot, fetching', accepting)  BY <1>6, InHandInMap DEF HeldIsReal
  <1>8. AllOf(object, slot, fetching', accepting, 0..5)
    BY <1>3, <1>5, <1>7 DEF InviteInv, AllOf, HandsTyped
  <1>9. NoneYet(slot, fetching', accepting)  BY <1>3 DEF InviteInv, NoneYet
  <1>10. grouped \/ (NotJoined(object, slot, fetching', accepting) /\ stored.status # "joined")
    BY <1>3, <1>6 DEF InviteInv, NotJoined, Gone
  <1>11. Saved(object, slot, fetching', stored, due')
    <2>1. due \in BOOLEAN /\ Saved(object, slot, fetching, stored, due)  BY DEF InviteInv
    <2> QED  BY <1>1, <1>3, <2>1 DEF Saved, FetchesOf
  <1>12. KeepsStatus(object, slot, fetching', stale')
    BY <1>3 DEF InviteInv, KeepsStatus
  <1>13. due' \in BOOLEAN  BY <1>1 DEF InviteInv, FetchesOf
  <1> QED  BY <1>8, <1>9, <1>10, <1>11, <1>12, <1>13 DEF InviteInv

LEMMA StartFetchKeeps ==
  ASSUME InviteInv, NEW p \in Syncer, StartFetch(p)
  PROVE  InviteInv'
  <1>1. NoFetch.at = "idle" /\ NoFetch.changed = FALSE  BY DEF NoFetch, Empty
  <1>2. fetching[p].at = "idle" /\ fetching[p].changed = FALSE  BY <1>1 DEF StartFetch
  <1>3. due' = (due \/ fetching[p].changed)  BY <1>2 DEF StartFetch, InviteInv
  <1>4. stale' \in [Syncer -> BOOLEAN] /\ \A q \in Syncer : q # p => stale'[q] = stale[q]
    BY DEF StartFetch, InviteInv
  <1> QED  BY <1>2, <1>3, <1>4, HandKeeps DEF StartFetch

LEMMA EndFetchKeeps ==
  ASSUME InviteInv, NEW p \in Syncer, EndFetch(p)
  PROVE  InviteInv'
  BY HandKeeps DEF EndFetch, NoFetch, InviteInv

\* The object h is in some hand; an accept gives it the status st.
PutsBack(h, st, a, gr, du) ==
    /\ h # 0 /\ h \in 0..5 /\ InHand(slot, fetching, accepting, h) /\ st \in Statuses \ {"gone"}
    /\ a \in [Accept -> AcceptsOf(0..5)]
    /\ \A c \in Accept : a[c].held \in {0, h, accepting[c].held}
    /\ \A c \in Accept : (a[c].held # 0 <=> a[c].at # "idle")
    /\ (grouped => gr) /\ (gr \/ (st # "joined" /\ \A c \in Accept : a[c].at # "sync"))
    /\ (st = "joining" => \E c \in Accept : a[c].at = "join") /\ (st = "joining" \/ du)
    /\ gr \in BOOLEAN /\ du \in BOOLEAN

LEMMA PutBackKeeps ==
  ASSUME InviteInv, running, NEW h, NEW st, NEW a, PutBack(h, st, a),
         PutsBack(h, st, a, grouped', due'),
         leftover' = FALSE, UNCHANGED <<offered, stored, running, restarts>>
  PROVE  InviteInv'
  <1> USE DEF PutsBack
  <1> DEFINE o == [object EXCEPT ![h].status = st]
  <1>1. h \in Object /\ object[h] \in Records /\ object \in [Object -> Records]
    BY InHandInMap DEF InviteInv
  <1>2. o[h] \in Records /\ o[h].status = st  BY <1>1 DEF Records
  <1>3. \A x \in Object : x # h => o[x] = object[x]  BY <1>1
  <1>4. Rename(o, h, fetching, a) /\ stale' = [p \in Syncer |-> fetching[p] # NoFetch]
    BY DEF PutBack
  <1> HIDE DEF o
  <1>5. HandsTyped(h, fetching, a, 0..6)
    <2>1. \A c \in Accept : a[c] \in AcceptsOf(0..6)  BY DEF AcceptsOf
    <2> QED  BY <2>1, WiderHands DEF HandsTyped
  <1>6. \A x \in 1..6 : InHand(h, fetching, a, x) => InHand(slot, fetching, accepting, x)
    BY DEF InHand
  <1>7. HeldIsReal(o, h, fetching, a)
    BY <1>2, <1>3, <1>6, InHandInMap DEF HeldIsReal
  <1>8. Hands(fetching, a)  BY DEF Hands, InviteInv, AllOf
  <1>9. NoneYet(h, fetching, a)  BY DEF NoneYet
  <1>10. KeepsStatus(o, h, fetching, stale')
    <2>1. NoFetch.at = "idle"  BY DEF NoFetch, Empty
    <2>2. \A p \in Syncer : ~stale'[p] => fetching[p].at = "idle"  BY <1>4, <2>1
    <2> QED  BY <2>2 DEF KeepsStatus
  <1>11. grouped' \/ (NotJoined(o, h, fetching, a) /\ stored.status # "joined")
    <2> SUFFICES ASSUME ~grouped'  PROVE NotJoined(o, h, fetching, a) /\ stored.status # "joined"
      OBVIOUS
    <2>1. NotJoined(object, slot, fetching, accepting) /\ stored.status # "joined"
      BY DEF InviteInv
    <2>2. \A x \in 1..6 : InHand(h, fetching, a, x) => o[x].status # "joined"
      BY <1>2, <1>3, <1>6, <2>1, InHandInMap DEF NotJoined
    <2> QED  BY <2>1, <2>2 DEF NotJoined
  <1>12. Joining(o, h, a, leftover')  BY <1>2 DEF Joining, ShownOf
  <1>13. Saved(o, h, fetching, stored, due')  BY <1>2 DEF Saved, ShownOf
  <1>14. Ready(o, h, fetching, a, stale', leftover', due', grouped')
    BY <1>5, <1>7, <1>8, <1>9, <1>10, <1>11, <1>12, <1>13 DEF Ready, AllOf
  <1> QED  BY <1>4, <1>14, RenameKeeps

\* The hands of the accepts after that of x has become e.
LEMMA AcceptsGive ==
  ASSUME InviteInv, NEW x \in Accept, NEW e \in AcceptsOf(0..5),
         e.held # 0 <=> e.at # "idle"
  PROVE  LET a == [accepting EXCEPT ![x] = e] IN
         /\ a \in [Accept -> AcceptsOf(0..5)] /\ a[x] = e
         /\ \A c \in Accept : c # x => a[c] = accepting[c]
         /\ \A c \in Accept : (a[c].held # 0 <=> a[c].at # "idle")
         /\ \A c \in Accept : a[c].held \in {0, e.held, accepting[c].held}
  <1>1. accepting \in [Accept -> AcceptsOf(0..5)]  BY DEF InviteInv, AllOf, HandsTyped
  <1>2. \A c \in Accept : (accepting[c].held # 0 <=> accepting[c].at # "idle")
    BY DEF InviteInv, AllOf, Hands
  <1> QED  BY <1>1, <1>2

LEMMA NoAcceptFits == NoAccept \in AcceptsOf(0..5) /\ NoAccept.at = "idle" /\ NoAccept.held = 0
  BY DEF NoAccept, AcceptsOf

\* What an accept that is under way holds.
LEMMA AcceptHolds ==
  ASSUME InviteInv, NEW x \in Accept, accepting[x].at # "idle"
  PROVE  LET h == accepting[x].held IN
         /\ h # 0 /\ h \in 0..5 /\ InHand(slot, fetching, accepting, h)
         /\ accepting[x] \in AcceptsOf(0..5)
  BY DEF InviteInv, AllOf, Hands, HandsTyped, AcceptsOf, InHand

LEMMA AcceptInviteKeeps ==
  ASSUME InviteInv, NEW x \in Accept, AcceptInvite(x)
  PROVE  InviteInv'
  <1> DEFINE e == [at |-> "join", held |-> slot]
             a == [accepting EXCEPT ![x] = e]
  <1>1. /\ running /\ slot # 0 /\ PutBack(slot, "joining", a) /\ leftover' = FALSE
        /\ UNCHANGED <<offered, grouped, due, stored, running, restarts>>
    BY DEF AcceptInvite
  <1>2. slot \in 0..5 /\ {grouped, due} \subseteq BOOLEAN  BY DEF InviteInv, AllOf, HandsTyped
  <1>3. e \in AcceptsOf(0..5) /\ e.at = "join" /\ e.held = slot  BY <1>2 DEF AcceptsOf
  <1>4. e.held # 0 <=> e.at # "idle"  BY <1>1, <1>3
  <1> HIDE DEF e
  <1>5. /\ a \in [Accept -> AcceptsOf(0..5)] /\ a[x] = e
        /\ \A c \in Accept : c # x => a[c] = accepting[c]
        /\ \A c \in Accept : (a[c].held # 0 <=> a[c].at # "idle")
        /\ \A c \in Accept : a[c].held \in {0, e.held, accepting[c].held}
    BY <1>3, <1>4, AcceptsGive
  <1> HIDE DEF a
  <1>6. grouped \/ \A c \in Accept : a[c].at # "sync"
    BY <1>3, <1>5 DEF InviteInv, NotJoined
  <1>7. InHand(slot, fetching, accepting, slot)  BY DEF InHand
  <1>8. "joining" \in Statuses \ {"gone"}  BY DEF Statuses
  <1>9. PutsBack(slot, "joining", a, grouped', due')
    BY <1>1, <1>2, <1>3, <1>5, <1>6, <1>7, <1>8 DEF PutsBack
  <1> QED  BY <1>1, <1>9, PutBackKeeps

LEMMA JoinsKeeps ==
  ASSUME InviteInv, NEW x \in Accept, Joins(x)
  PROVE  InviteInv'
  <1> DEFINE h == accepting[x].held
             e == [accepting[x] EXCEPT !.at = "sync"]
             a == [accepting EXCEPT ![x] = e]
  <1>1. /\ running /\ accepting[x].at = "join" /\ leftover' = FALSE /\ grouped' = TRUE /\ due' = TRUE
        /\ UNCHANGED <<offered, stored, running, restarts>>
        /\ PutBack(h, "joined", [accepting EXCEPT ![x].at = "sync"])
    BY DEF Joins, Remember
  <1>2. h # 0 /\ h \in 0..5 /\ InHand(slot, fetching, accepting, h) /\ accepting[x] \in AcceptsOf(0..5)
    BY <1>1, AcceptHolds
  <1>3. e \in AcceptsOf(0..5) /\ e.at = "sync" /\ e.held = h  BY <1>2 DEF AcceptsOf
  <1>4. [accepting EXCEPT ![x].at = "sync"] = a  OBVIOUS
  <1>5. PutBack(h, "joined", a)  BY <1>1, <1>4
  <1> HIDE DEF e, h
  <1>6. /\ a \in [Accept -> AcceptsOf(0..5)]
        /\ \A c \in Accept : (a[c].held # 0 <=> a[c].at # "idle")
        /\ \A c \in Accept : a[c].held \in {0, e.held, accepting[c].held}
    BY <1>2, <1>3, AcceptsGive
  <1> HIDE DEF a
  <1>7. "joined" \in Statuses \ {"gone"}  BY DEF Statuses
  <1>8. PutsBack(h, "joined", a, grouped', due')
    BY <1>1, <1>2, <1>3, <1>6, <1>7 DEF PutsBack
  <1> QED  BY <1>1, <1>5, <1>8, PutBackKeeps

LEMMA JoinFailsKeeps ==
  ASSUME InviteInv, NEW x \in Accept, JoinFails(x)
  PROVE  InviteInv'
  <1> DEFINE h == accepting[x].held
             a == [accepting EXCEPT ![x] = NoAccept]
  <1>1. /\ running /\ accepting[x].at = "join" /\ leftover' = FALSE /\ due' = TRUE
        /\ UNCHANGED <<offered, grouped, stored, running, restarts>> /\ PutBack(h, "failed", a)
    BY DEF JoinFails, Remember, Refused
  <1>2. h # 0 /\ h \in 0..5 /\ InHand(slot, fetching, accepting, h)
    BY <1>1, AcceptHolds
  <1>3. /\ a \in [Accept -> AcceptsOf(0..5)] /\ a[x] = NoAccept
        /\ \A c \in Accept : c # x => a[c] = accepting[c]
        /\ \A c \in Accept : (a[c].held # 0 <=> a[c].at # "idle")
        /\ \A c \in Accept : a[c].held \in {0, h, accepting[c].held}
    BY NoAcceptFits, AcceptsGive
  <1> HIDE DEF a, h
  <1>4. grouped \/ \A c \in Accept : a[c].at # "sync"
    BY <1>3, NoAcceptFits DEF InviteInv, NotJoined
  <1>5. "failed" \in Statuses \ {"gone"}  BY DEF Statuses
  <1>6. grouped \in BOOLEAN  BY DEF InviteInv
  <1>7. PutsBack(h, "failed", a, grouped', due')
    BY <1>1, <1>2, <1>3, <1>4, <1>5, <1>6 DEF PutsBack
  <1> QED  BY <1>1, <1>7, PutBackKeeps

LEMMA AcceptEndsKeeps ==
  ASSUME InviteInv, NEW x \in Accept, AcceptEnds(x)
  PROVE  InviteInv'
  <1> DEFINE h == accepting[x].held
             a == [accepting EXCEPT ![x] = NoAccept]
  <1>1. /\ running /\ accepting[x].at = "sync" /\ due' = TRUE
        /\ UNCHANGED <<offered, grouped, stored, running, restarts>>
    BY DEF AcceptEnds, Remember
  <1>2. h # 0 /\ h \in 0..5 /\ InHand(slot, fetching, accepting, h)
    BY <1>1, AcceptHolds
  <1>3. /\ a \in [Accept -> AcceptsOf(0..5)] /\ a[x] = NoAccept
        /\ \A c \in Accept : c # x => a[c] = accepting[c]
        /\ \A c \in Accept : (a[c].held # 0 <=> a[c].at # "idle")
        /\ \A c \in Accept : a[c].held \in {0, h, accepting[c].held}
    BY NoAcceptFits, AcceptsGive
  <1>4. grouped  BY <1>1 DEF InviteInv, NotJoined
  <1>5. grouped \in BOOLEAN /\ leftover \in BOOLEAN /\ stale \in [Syncer -> BOOLEAN]
    BY DEF InviteInv
  <1>6. CASE PutBack(h, "joined", a) /\ leftover' = FALSE
    <2> HIDE DEF a, h
    <2>1. "joined" \in Statuses \ {"gone"}  BY DEF Statuses
    <2>2. PutsBack(h, "joined", a, grouped', due')
      BY <1>1, <1>2, <1>3, <1>4, <1>5, <2>1 DEF PutsBack
    <2> QED  BY <1>1, <1>6, <2>2, PutBackKeeps
  <1>7. CASE Rename(object, slot, fetching, a) /\ UNCHANGED <<leftover, stale>>
    <2> HIDE DEF a, h
    <2>1. HandsTyped(slot, fetching, a, 0..6)
      <3>1. \A c \in Accept : a[c] \in AcceptsOf(0..6)  BY <1>3 DEF AcceptsOf
      <3> QED  BY <1>3, <3>1, WiderHands DEF HandsTyped
    <2>2. \A y \in 1..6 : InHand(slot, fetching, a, y) => InHand(slot, fetching, accepting, y)
      BY <1>2, <1>3 DEF InHand
    <2>3. HeldIsReal(object, slot, fetching, a)  BY <2>2, InHandInMap DEF HeldIsReal
    <2>4. Hands(fetching, a)  BY <1>3 DEF Hands, InviteInv, AllOf
    <2>5. NoneYet(slot, fetching, a)  BY <1>3, NoAcceptFits DEF NoneYet, InviteInv
    <2>6. Joining(object, slot, a, leftover)
      BY <1>1, <1>3 DEF Joining, InviteInv
    <2>7. Saved(object, slot, fetching, stored, TRUE)  BY DEF Saved
    <2>8. KeepsStatus(object, slot, fetching, stale)  BY DEF InviteInv
    <2>9. Ready(object, slot, fetching, a, stale', leftover', due', grouped')
      BY <1>1, <1>4, <1>7, <2>1, <2>3, <2>4, <2>5, <2>6, <2>7, <2>8 DEF Ready, AllOf
    <2> QED  BY <1>1, <1>5, <1>7, <2>9, RenameKeeps
  <1> QED  BY <1>6, <1>7 DEF AcceptEnds

LEMMA SaveTimerKeeps ==
  ASSUME InviteInv, SaveTimer
  PROVE  InviteInv'
  <1>1. stored' = Shown /\ due' = FALSE  BY DEF SaveTimer
  <1>2. Shown \in Records /\ (Shown = Gone \/ Shown.status # "gone")
    BY ShownIsReal DEF Shown
  <1>3. grouped \/ Shown.status # "joined"  BY ShownIsReal
  <1>4. Saved(object, slot, fetching, stored', due')  BY <1>1, ShownIsReal DEF Saved
  <1>5. grouped \/ (NotJoined(object, slot, fetching, accepting) /\ stored'.status # "joined")
    BY <1>1, <1>3 DEF InviteInv
  <1> QED  BY <1>1, <1>2, <1>4, <1>5 DEF InviteInv, SaveTimer

\* With nothing in hand but what the map has.
Rest == [p \in Syncer |-> NoFetch]
NoAccepts == [c \in Accept |-> NoAccept]

LEMMA RestGives ==
  ASSUME NEW s \in 0..5, NEW o, s # 0 => o[s] \in Records /\ o[s].status # "gone"
  PROVE  /\ AllOf(o, s, Rest, NoAccepts, 0..5) /\ NoneYet(s, Rest, NoAccepts)
         /\ \A st : KeepsStatus(o, s, Rest, st)
         /\ (s # 0 => o[s].status # "joined") => NotJoined(o, s, Rest, NoAccepts)
  <1>1. NoFetch \in FetchesOf(0..5)  BY GoneIsRecord DEF NoFetch, Empty, FetchesOf, FetchSteps
  <1>2. /\ NoFetch.at = "idle" /\ NoFetch.held = 0 /\ NoFetch.copy = Gone
        /\ NoFetch.changed = FALSE
    BY DEF NoFetch, Empty
  <1>3. Gone.status = "gone"  BY DEF Gone
  <1>4. HandsTyped(s, Rest, NoAccepts, 0..5)
    BY <1>1, NoAcceptFits DEF HandsTyped, Rest, NoAccepts
  <1>5. \A x \in 1..6 : InHand(s, Rest, NoAccepts, x) => x = s
    BY <1>2, NoAcceptFits DEF InHand, Rest, NoAccepts
  <1>6. HeldIsReal(o, s, Rest, NoAccepts)  BY <1>5 DEF HeldIsReal
  <1>7. Hands(Rest, NoAccepts)  BY <1>2, NoAcceptFits DEF Hands, Rest, NoAccepts
  <1>8. NoneYet(s, Rest, NoAccepts)  BY <1>2, NoAcceptFits DEF NoneYet, Rest, NoAccepts
  <1>9. \A st : KeepsStatus(o, s, Rest, st)  BY <1>2 DEF KeepsStatus, Rest
  <1>10. (s # 0 => o[s].status # "joined") => NotJoined(o, s, Rest, NoAccepts)
    BY <1>2, <1>3, <1>5, NoAcceptFits DEF NotJoined, Rest, NoAccepts
  <1> QED  BY <1>4, <1>6, <1>7, <1>8, <1>9, <1>10 DEF AllOf

LEMMA InviteCrashKeeps ==
  ASSUME InviteAssumption, InviteInv, InviteCrash
  PROVE  InviteInv'
  <1>1. /\ fetching' = Rest /\ accepting' = NoAccepts /\ slot' = 0 /\ running' = FALSE
        /\ due' = FALSE /\ leftover' = FALSE
        /\ stale' = [p \in Syncer |-> FALSE] /\ object' = [x \in Object |-> Gone]
        /\ restarts < MaxInviteRestarts /\ restarts' = restarts + 1
        /\ UNCHANGED <<offered, grouped, stored>>
    BY DEF InviteCrash, Rest, NoAccepts
  <1>2. restarts' \in 0..MaxInviteRestarts  BY <1>1 DEF InviteInv, InviteAssumption
  <1>3. object' \in [Object -> Records] /\ stale' \in [Syncer -> BOOLEAN]
    BY <1>1, GoneIsRecord
  <1>4. /\ AllOf(object', slot', fetching', accepting', 0..5) /\ NoneYet(slot', fetching', accepting')
        /\ KeepsStatus(object', slot', fetching', stale')
        /\ NotJoined(object', slot', fetching', accepting')
    <2>1. 0 \in 0..5  OBVIOUS
    <2>2. ASSUME NEW o
          PROVE  /\ AllOf(o, 0, Rest, NoAccepts, 0..5) /\ NoneYet(0, Rest, NoAccepts)
                 /\ (\A st : KeepsStatus(o, 0, Rest, st)) /\ NotJoined(o, 0, Rest, NoAccepts)
      BY <2>1, RestGives
    <2> QED  BY <1>1, <2>2
  <1>5. Joining(object', slot', accepting', leftover')  BY <1>1 DEF Joining, ShownOf, Gone
  <1> QED  BY <1>1, <1>2, <1>3, <1>4, <1>5 DEF InviteInv, Rest, NoAccepts

LEMMA InviteLoadKeeps ==
  ASSUME InviteInv, InviteLoad
  PROVE  InviteInv'
  <1>1. /\ ~running /\ running' = TRUE /\ leftover' = (stored.status = "joining")
        /\ UNCHANGED <<offered, grouped, fetching, accepting, due, stored, restarts, stale>>
    BY DEF InviteLoad
  <1>2. slot = 0 /\ fetching' = Rest /\ accepting' = NoAccepts
    BY <1>1 DEF InviteInv, Rest, NoAccepts
  <1>3. stored \in Records /\ (stored = Gone \/ stored.status # "gone")
        /\ object \in [Object -> Records] /\ 1 \in Object
    BY DEF InviteInv, Object
  <1>4. /\ slot' \in 0..5 /\ object' \in [Object -> Records]
        /\ (slot' # 0 => object'[slot'] = stored /\ stored.status # "gone")
        /\ ShownOf(object', slot') = stored
    BY <1>2, <1>3 DEF InviteLoad, ShownOf
  <1>5. /\ AllOf(object', slot', fetching', accepting', 0..5) /\ NoneYet(slot', fetching', accepting')
        /\ KeepsStatus(object', slot', fetching', stale')
        /\ stored.status # "joined" => NotJoined(object', slot', fetching', accepting')
    BY <1>2, <1>3, <1>4, RestGives
  <1>6. Joining(object', slot', accepting', leftover')  BY <1>1, <1>4 DEF Joining
  <1>7. Saved(object', slot', fetching', stored, due')  BY <1>4 DEF Saved
  <1>8. grouped \/ (NotJoined(object', slot', fetching', accepting') /\ stored.status # "joined")
    BY <1>5 DEF InviteInv
  <1> QED  BY <1>1, <1>4, <1>5, <1>6, <1>7, <1>8 DEF InviteInv

LEMMA InviteStart ==
  ASSUME InviteAssumption, InviteInit
  PROVE  InviteInv
  <1>1. /\ slot = 0 /\ fetching = Rest /\ accepting = NoAccepts /\ stored = Gone
        /\ object = [x \in Object |-> Gone] /\ leftover = FALSE
    BY DEF InviteInit, Rest, NoAccepts
  <1>2. /\ AllOf(object, slot, fetching, accepting, 0..5) /\ NoneYet(slot, fetching, accepting)
        /\ KeepsStatus(object, slot, fetching, stale) /\ NotJoined(object, slot, fetching, accepting)
    BY <1>1, RestGives
  <1>3. Joining(object, slot, accepting, leftover) /\ Saved(object, slot, fetching, stored, due)
    BY <1>1 DEF Joining, Saved, ShownOf, Gone
  <1>4. object \in [Object -> Records] /\ Gone.status # "joined"  BY <1>1, GoneIsRecord DEF Gone
  <1>5. {offered, grouped, due, running, leftover} \subseteq BOOLEAN /\ stale \in [Syncer -> BOOLEAN]
    BY DEF InviteInit
  <1>6. restarts \in 0..MaxInviteRestarts /\ running = TRUE  BY DEF InviteInit, InviteAssumption
  <1> QED  BY <1>1, <1>2, <1>3, <1>4, <1>5, <1>6, GoneIsRecord DEF InviteInv

LEMMA InviteStep ==
  ASSUME InviteAssumption, InviteInv, [InviteNext]_inviteVars
  PROVE  InviteInv'
  <1>1. CASE Offer  BY <1>1 DEF Offer, InviteInv
  <1>2. CASE UNCHANGED inviteVars  BY <1>2 DEF inviteVars, InviteInv
  <1> QED
    BY <1>1, <1>2, SaveTimerKeeps, InviteCrashKeeps, InviteLoadKeeps, StartFetchKeeps, FetchedKeeps,
       UnlockedKeeps, StoresKeeps, StoresSecondKeeps, EndFetchKeeps, AcceptInviteKeeps, JoinsKeeps,
       JoinFailsKeeps, AcceptEndsKeeps
    DEF InviteNext

LEMMA InvitesHold ==
  ASSUME InviteInv
  PROVE  InvitesKeep /\ InviteTypeOK
  <1>1. SyncKeepsStatus
    BY ShownIsReal DEF SyncKeepsStatus, InviteInv, KeepsStatus
  <1>2. JoinedHasGroup  BY ShownIsReal DEF JoinedHasGroup, InviteInv
  <1>3. JoiningIsHeld  BY ShownIsReal DEF JoiningIsHeld, InviteInv, Joining
  <1>4. InviteIsSaved
    <2>1. NoFetch.changed = FALSE  BY DEF NoFetch, Empty
    <2> QED  BY <2>1, ShownIsReal DEF InviteIsSaved, InviteInv, Saved
  <1>5. InviteTypeOK
    <2>1. \A x \in Object : object[x].status \in Statuses  BY DEF InviteInv, Records
    <2>2. slot # 0 => Shown # Gone  BY ShownIsReal DEF Gone
    <2>3. slot \in 0..5  BY DEF InviteInv, AllOf, HandsTyped
    <2>4. \A b \in {offered, grouped, due, running, leftover} : b \in BOOLEAN  BY DEF InviteInv
    <2>5. restarts \in 0..MaxInviteRestarts  BY DEF InviteInv
    <2> QED  BY <2>1, <2>2, <2>3, <2>4, <2>5 DEF InviteTypeOK, Statuses
  <1> QED  BY <1>1, <1>2, <1>3, <1>4, <1>5 DEF InvitesKeep

(* Whatever syncs, accepts, saves, crashes and restarts overlap, for any   *)
(* number of them: a sync leaves the status that an accept gave the        *)
(* invite, an invite that is joined has its conversation, one that is      *)
(* joining is in the hands of an accept, and the file gets what is shown   *)
(* (syncInvites, acceptInvite and persistSoon of marmot-service.mjs).      *)
THEOREM InvitesKept ==
  ASSUME InviteAssumption
  PROVE  InviteSpec => []InvitesKeep
  <1>1. InviteInit => InviteInv  BY InviteStart
  <1>2. InviteInv /\ [InviteNext]_inviteVars => InviteInv'  BY InviteStep
  <1>3. InviteInv => InvitesKeep  BY InvitesHold
  <1> QED  BY <1>1, <1>2, <1>3, PTL DEF InviteSpec

-----------------------------------------------------------------------------
(* Conversations                                                           *)

LEMMA LeastNatural ==
  ASSUME NEW T \in SUBSET Nat, T # {}
  PROVE  \E x \in T : \A y \in T : x <= y
  <1> DEFINE R == OpToRel(<, Nat)
  <1>1. IsWellFoundedOn(R, Nat)  BY NatLessThanWellFounded, Zenon
  <1>2. R = {ss \in Nat \X Nat : ss[1] < ss[2]}  BY Zenon DEF OpToRel
  <1> HIDE DEF R
  <1>3. PICK x \in T : \A y \in T : ~(<<y, x>> \in R)  BY <1>1, WFMin
  <1>4. \A y \in T : ~(y < x)  BY <1>2, <1>3
  <1> QED  BY <1>4

LEMMA GreatestBelow ==
  ASSUME NEW n \in Nat, NEW T \in SUBSET (0..n), T # {}
  PROVE  /\ Max(T) \in T /\ \A y \in T : Max(T) >= y
  <1> DEFINE U == {n - y : y \in T}
  <1>1. U \in SUBSET Nat /\ U # {}
    <2>1. \A y \in T : n - y \in Nat
      <3> TAKE y \in T
      <3>1. y \in 0..n  OBVIOUS
      <3> QED  BY <3>1
    <2> QED  BY <2>1
  <1>2. PICK u \in U : \A v \in U : u <= v  BY <1>1, LeastNatural
  <1>3. PICK x \in T : u = n - x  BY <1>2
  <1>4. \A y \in T : x >= y
    <2> TAKE y \in T
    <2>1. n - y \in U  OBVIOUS
    <2>2. n - x <= n - y  BY <1>2, <1>3, <2>1
    <2>3. x \in 0..n /\ y \in 0..n  OBVIOUS
    <2> QED  BY <2>2, <2>3
  <1> QED  BY <1>4 DEF Max

LEMMA MaxOfTwo ==
  ASSUME NEW a \in Nat, NEW b \in Nat
  PROVE  Max({a, b}) = IF a >= b THEN a ELSE b
  BY DEF Max

LEMMA MinOfTwo ==
  ASSUME NEW a \in Nat, NEW b \in Nat
  PROVE  Min({a, b}) = IF a <= b THEN a ELSE b
  BY DEF Min

LEMMA SinceGives ==
  ASSUME ThreadAssumption, NEW c \in Nat
  PROVE  Since(c) = IF c > Overlap THEN c - Overlap ELSE 0
  <1>1. Overlap \in Nat  BY DEF ThreadAssumption
  <1>2. CASE c > Overlap
    <2>1. Max({0, c - Overlap}) = c - Overlap  BY <1>1, <1>2 DEF Max
    <2> QED  BY <1>1, <1>2, <2>1 DEF Since
  <1>3. CASE ~(c > Overlap)
    <2>1. Max({0, c - Overlap}) = 0  BY <1>1, <1>3 DEF Max
    <2> QED  BY <1>1, <1>3, <2>1 DEF Since
  <1> QED  BY <1>2, <1>3

LEMMA NewestGives ==
  ASSUME ThreadAssumption, NEW S \in SUBSET Message
  PROVE  /\ Newest(S) \in 0..MaxNow /\ (\A e \in S : Time[e] <= Newest(S))
         /\ Newest(S) # 0 => \E e \in S : Time[e] = Newest(S)
  <1> DEFINE T == {Time[e] : e \in S} \cup {0}
  <1>1. \A e \in Message : Time[e] \in 1..MaxNow  BY DEF ThreadAssumption
  <1>2. T \in SUBSET (0..MaxNow) /\ T # {} /\ MaxNow \in Nat
    BY <1>1 DEF ThreadAssumption
  <1>3. Max(T) \in T /\ \A y \in T : Max(T) >= y  BY <1>2, GreatestBelow
  <1>4. Newest(S) = Max(T)  BY DEF Newest
  <1> HIDE DEF T
  <1>5. \A e \in S : Time[e] \in T  BY DEF T
  <1>6. Max(T) \in 0..MaxNow  BY <1>2, <1>3
  <1>7. \A e \in S : Time[e] <= Max(T)  BY <1>1, <1>3, <1>5, <1>6
  <1>8. Max(T) # 0 => \E e \in S : Time[e] = Max(T)  BY <1>3 DEF T
  <1> QED  BY <1>4, <1>6, <1>7, <1>8

LEMMA BeforeIsOrder ==
  ASSUME ThreadAssumption
  PROVE  /\ \A d, e, f \in Message : Before(d, e) /\ Before(e, f) => Before(d, f)
         /\ \A d, e \in Message : d = e \/ Before(d, e) \/ Before(e, d)
         /\ \A d \in Message : ~Before(d, d)
  <1>1. \A e \in Message : Time[e] \in Nat /\ e \in Nat  BY DEF ThreadAssumption
  <1> QED  BY <1>1 DEF Before

LEMMA FirstGives ==
  ASSUME ThreadAssumption, NEW S \in SUBSET Message, S # {}
  PROVE  First(S) \in S /\ \A d \in S \ {First(S)} : Before(First(S), d)
  <1>1. \A e \in Message : Time[e] \in Nat /\ e \in Nat  BY DEF ThreadAssumption
  <1>2. PICK t \in {Time[e] : e \in S} : \A u \in {Time[e] : e \in S} : t <= u
    <2>1. {Time[e] : e \in S} \in SUBSET Nat /\ {Time[e] : e \in S} # {}  BY <1>1
    <2> QED  BY <2>1, LeastNatural
  <1>3. PICK x \in {e \in S : Time[e] = t} : \A y \in {e \in S : Time[e] = t} : x <= y
    <2>1. {e \in S : Time[e] = t} \in SUBSET Nat /\ {e \in S : Time[e] = t} # {}  BY <1>1, <1>2
    <2> QED  BY <2>1, LeastNatural
  <1>4. ASSUME NEW d \in S, d # x  PROVE Before(x, d)
    <2>1. t <= Time[d]  BY <1>2
    <2>2. Time[d] = t => x <= d  BY <1>3
    <2>3. x \in Nat /\ d \in Nat /\ t \in Nat /\ Time[d] \in Nat /\ Time[x] = t  BY <1>1, <1>3
    <2> QED  BY <1>4, <2>1, <2>2, <2>3 DEF Before
  <1>5. x \in S /\ \A d \in S \ {x} : Before(x, d)  BY <1>3, <1>4
  <1> QED  BY <1>5 DEF First

-----------------------------------------------------------------------------
(* A thread is the newest of what came in *)

NewestOf(th, re) ==
    /\ re \in SUBSET Message /\ th \subseteq re
    /\ \/ th = re /\ Cardinality(re) <= Limit
       \/ Cardinality(th) = Limit /\ Cardinality(re) >= Limit
    /\ \A e \in th, d \in re \ th : Before(d, e)

LEMMA Finite ==
  ASSUME ThreadAssumption, NEW S \in SUBSET Message
  PROVE  IsFiniteSet(S) /\ Cardinality(S) \in Nat
  BY FS_Subset, FS_CardinalityType DEF ThreadAssumption

LEMMA UpsertKeeps ==
  ASSUME ThreadAssumption, NEW th, NEW re, NewestOf(th, re), NEW e \in Message
  PROVE  NewestOf(Upsert(th, e), re \cup {e}) /\ (e \in th => Upsert(th, e) = th)
  <1> DEFINE T == th \cup {e}
             f == First(T)
             g == re \cup {e}
  <1>1. /\ re \in SUBSET Message /\ th \in SUBSET Message /\ T \in SUBSET Message
        /\ g \in SUBSET Message /\ Limit \in Nat
    BY DEF NewestOf, ThreadAssumption
  <1>2. /\ IsFiniteSet(th) /\ Cardinality(th) \in Nat /\ IsFiniteSet(re) /\ Cardinality(re) \in Nat
        /\ IsFiniteSet(T) /\ Cardinality(T) \in Nat /\ Cardinality(g) \in Nat
    BY <1>1, Finite
  <1>3. Cardinality(T) = IF e \in th THEN Cardinality(th) ELSE Cardinality(th) + 1
    BY <1>2, FS_AddElement
  <1>4. Cardinality(g) = IF e \in re THEN Cardinality(re) ELSE Cardinality(re) + 1
    BY <1>2, FS_AddElement
  <1>5. Cardinality(th) <= Limit  BY <1>1 DEF NewestOf
  <1>6. e \in th => T = th /\ g = re  BY DEF NewestOf
  <1> HIDE DEF T, g
  <1>7. Upsert(th, e) = IF Cardinality(T) > Limit THEN T \ {f} ELSE T  BY DEF Upsert, T, f
  <1>8. CASE e \in th
    <2>1. Upsert(th, e) = th  BY <1>2, <1>5, <1>6, <1>7, <1>8, <1>1
    <2> QED  BY <1>6, <1>8, <2>1 DEF g
  <1>9. CASE e \notin th /\ Cardinality(th) < Limit
    <2>1. th = re  BY <1>1, <1>2, <1>9 DEF NewestOf
    <2>2. Upsert(th, e) = T /\ Cardinality(T) <= Limit  BY <1>1, <1>2, <1>3, <1>7, <1>9
    <2>3. T = g  BY <2>1 DEF T, g
    <2> QED  BY <1>1, <1>9, <2>2, <2>3 DEF NewestOf, g
  <1>10. CASE e \notin th /\ Cardinality(th) = Limit
    <2>1. Cardinality(T) = Limit + 1  BY <1>3, <1>10
    <2>2. Upsert(th, e) = T \ {f}  BY <1>1, <1>7, <2>1
    <2>3. f \in T /\ \A d \in T \ {f} : Before(f, d)
      BY <1>1, FirstGives DEF f, T
    <2> HIDE DEF f
    <2>4. Cardinality(T \ {f}) = Limit
      <3>1. Cardinality(T \ {f}) = Cardinality(T) - 1  BY <1>2, <2>3, FS_RemoveElement
      <3> QED  BY <1>1, <2>1, <3>1
    <2>5. Cardinality(re) >= Limit  BY <1>1, <1>2, <1>10 DEF NewestOf
    <2>6. Cardinality(g) >= Limit  BY <1>1, <1>2, <1>4, <2>5
    <2>7. T \ {f} \subseteq g  BY DEF T, g, NewestOf
    <2>8. ASSUME NEW x \in T \ {f}, NEW d \in g \ (T \ {f})  PROVE Before(d, x)
      <3>1. f \in Message /\ x \in Message /\ d \in Message  BY <1>1, <2>3
      <3>2. CASE d = f  BY <2>3, <3>2
      <3>3. CASE d # f
        <4>1. d \in re \ th  BY <3>3 DEF g, T
        <4>2. CASE x \in th  BY <4>1, <4>2 DEF NewestOf
        <4>3. CASE x = e
          <5>1. f \in th  BY <2>3, <4>3 DEF T
          <5>2. Before(d, f) /\ Before(f, x)  BY <2>3, <4>1, <5>1 DEF NewestOf
          <5> QED  BY <3>1, <5>2, BeforeIsOrder
        <4> QED  BY <4>2, <4>3 DEF T
      <3> QED  BY <3>2, <3>3
    <2>9. NewestOf(T \ {f}, g)  BY <1>1, <2>4, <2>6, <2>7, <2>8 DEF NewestOf
    <2> QED  BY <1>10, <2>2, <2>9 DEF g
  <1> QED  BY <1>1, <1>2, <1>5, <1>8, <1>9, <1>10

-----------------------------------------------------------------------------
(* What a cursor has passed *)

\* Nothing that comes later and is not late is behind the cursor c.
Covered(c, on, la) ==
    \/ c = 0 \/ \E d \in on : Time[d] >= c
    \/ \A e \in Message : Time[e] < Since(c) => e \in la

\* Nothing that has come is behind the cursor c, but what is in re.
Got(c, re, on, la) ==
    \A e \in on \ (Own \cup la) : e \in re \/ Time[e] >= Since(c)

\* A state of the conversation, in memory or in a file, by its cursor and what
\* came in.
Whole(c, th, re, on, la) == Covered(c, on, la) /\ Got(c, re, on, la) /\ NewestOf(th, re)

SyncRecords ==
    [at : {"idle", "list", "visit", "ask", "read"}, loops : BOOLEAN, since : 0..MaxNow,
     left : SUBSET Message, seen : 0..MaxNow, again : BOOLEAN]

Files ==
    [thread : SUBSET Message, cursor : 0..MaxNow, lastRead : 0..MaxNow,
     received : SUBSET Message, any : BOOLEAN]

WholeFile(f, on, la) ==
    f \in Files /\ Whole(f.cursor, f.thread, f.received, on, la)

\* A sync has read, or has still to read, what it will pass.
Gets(r, re, on, la) ==
    /\ r \in SyncRecords /\ Covered(r.since, on, la) /\ Covered(r.seen, on, la)
    /\ (r.at # "read" => r.seen = 0)
    /\ (r.at = "ask" => Got(r.since, re, on, la))
    /\ (r.at = "read" => Got(r.seen, re \cup r.left, on, la))

Syncs(sy, fl, re, on, la) ==
    /\ sy \in [Sync -> SyncRecords] /\ (fl <=> sy["poll"] # NoSync) /\ fl \in BOOLEAN
    /\ \A p \in Sync : Gets(sy[p], re, on, la)

Follows(f, th, la) == f.thread = th /\ f.lastRead = la

ThreadTyped ==
    /\ onRelay \in SUBSET Message /\ late \in SUBSET Message
    /\ member \in BOOLEAN /\ listed \in BOOLEAN /\ armed \in BOOLEAN /\ up \in BOOLEAN
    /\ skipped \in BOOLEAN
    /\ syncedAt \in 0..MaxNow /\ lastRead \in 0..MaxNow /\ crashes \in 0..MaxCrashes

Down ==
    ~up => /\ syncing = [p \in Sync |-> NoSync] /\ ~inFlight /\ ~armed /\ writing = Nothing

FileFollows ==
    up /\ ~armed /\ ~skipped
      => Follows(IF writing.any THEN writing ELSE disk, thread, lastRead)

ThreadInv ==
    /\ ThreadTyped /\ Down /\ FileFollows
    /\ Whole(syncedAt, thread, received, onRelay, late)
    /\ WholeFile(writing, onRelay, late) /\ WholeFile(disk, onRelay, late)
    /\ Syncs(syncing, inFlight, received, onRelay, late)

LEMMA Times ==
  ASSUME ThreadAssumption
  PROVE  /\ MaxNow \in Nat /\ Overlap \in Nat /\ (\A e \in Message : Time[e] \in 0..MaxNow)
         /\ \A c \in 0..MaxNow : Since(c) \in 0..MaxNow /\ Since(c) <= c /\ Since(c) >= c - Overlap
         /\ Since(0) = 0
  <1>1. MaxNow \in Nat /\ Overlap \in Nat /\ \A e \in Message : Time[e] \in 0..MaxNow
    BY DEF ThreadAssumption
  <1>2. ASSUME NEW c \in 0..MaxNow
        PROVE  Since(c) = IF c > Overlap THEN c - Overlap ELSE 0
    BY <1>1, SinceGives
  <1> QED  BY <1>1, <1>2

\* An event that comes is behind no cursor, unless it is late or an own one.
LEMMA ArrivalKeeps ==
  ASSUME ThreadAssumption, NEW on \in SUBSET Message, NEW la \in SUBSET Message, NEW e \in Message,
         NEW lb, la \subseteq lb,
         e \in Own \/ e \in lb \/ \A d \in on : ~(Time[d] > Time[e] + Overlap)
  PROVE  /\ \A c : Covered(c, on, la) => Covered(c, on \cup {e}, lb)
         /\ \A re : \A c \in 0..MaxNow : Covered(c, on, la) /\ Got(c, re, on, la)
              => Got(c, re, on \cup {e}, lb)
  <1>1. ASSUME NEW c, Covered(c, on, la)  PROVE Covered(c, on \cup {e}, lb)
    BY <1>1 DEF Covered
  <1>2. ASSUME NEW c \in 0..MaxNow, Covered(c, on, la), e \notin Own, e \notin lb
        PROVE  Time[e] >= Since(c)
    <2>1. Time[e] \in 0..MaxNow /\ Since(c) \in 0..MaxNow /\ Overlap \in Nat /\ MaxNow \in Nat
          /\ Since(0) = 0 /\ \A d \in on : Time[d] \in 0..MaxNow
      BY Times
    <2>2. CASE c = 0  BY <2>1, <2>2
    <2>3. CASE \E d \in on : Time[d] >= c
      <3>1. PICK d \in on : Time[d] >= c  BY <2>3
      <3>2. Time[d] <= Time[e] + Overlap  BY <1>2, <2>1
      <3>3. Since(c) = IF c > Overlap THEN c - Overlap ELSE 0  BY <2>1, SinceGives
      <3> QED  BY <2>1, <3>1, <3>2, <3>3
    <2>4. CASE \A x \in Message : Time[x] < Since(c) => x \in la  BY <1>2, <2>1, <2>4
    <2> QED  BY <1>2, <2>2, <2>3, <2>4 DEF Covered
  <1>3. ASSUME NEW c \in 0..MaxNow, NEW re, Covered(c, on, la), Got(c, re, on, la)
        PROVE  Got(c, re, on \cup {e}, lb)
    BY <1>2, <1>3 DEF Got
  <1> QED  BY <1>1, <1>3

LEMMA NoSyncGets ==
  ASSUME ThreadAssumption, NEW re, NEW on, NEW la
  PROVE  /\ NoSync \in SyncRecords /\ NoSync.at = "idle" /\ NoSync.since = 0 /\ NoSync.seen = 0
         /\ Gets(NoSync, re, on, la)
  <1>1. NoSync \in SyncRecords  BY Times DEF NoSync, SyncRecords
  <1>2. NoSync.at = "idle" /\ NoSync.since = 0 /\ NoSync.seen = 0  BY DEF NoSync
  <1> QED  BY <1>1, <1>2 DEF Gets, Covered

\* A sync that has not asked yet.
LEMMA EarlyGets ==
  ASSUME ThreadAssumption, NEW re, NEW on, NEW la, NEW r \in SyncRecords,
         r.since = 0, r.seen = 0, r.at \in {"idle", "list", "visit"}
  PROVE  Gets(r, re, on, la)
  BY DEF Gets, Covered

LEMMA SyncsGoOn ==
  ASSUME NEW re, NEW on, NEW la, Syncs(syncing, inFlight, re, on, la), NEW p \in Sync,
         NEW r, Gets(r, re, on, la), NEW fl \in BOOLEAN,
         p = "poll" => (fl <=> r # NoSync), p # "poll" => fl = inFlight
  PROVE  Syncs([syncing EXCEPT ![p] = r], fl, re, on, la)
  <1> DEFINE sy == [syncing EXCEPT ![p] = r]
  <1>1. r \in SyncRecords /\ syncing \in [Sync -> SyncRecords]  BY DEF Gets, Syncs
  <1>2. /\ sy \in [Sync -> SyncRecords] /\ sy[p] = r
        /\ \A q \in Sync : q # p => sy[q] = syncing[q]
    BY <1>1
  <1> HIDE DEF sy
  <1>3. \A q \in Sync : Gets(sy[q], re, on, la)  BY <1>2 DEF Syncs
  <1>4. fl <=> sy["poll"] # NoSync  BY <1>2 DEF Syncs, Sync
  <1> QED  BY <1>2, <1>3, <1>4 DEF Syncs, sy

\* A sync at work leaves the loop or goes on.
LEMMA EndedGives ==
  ASSUME ThreadAssumption, NEW re, NEW on, NEW la, Syncs(syncing, inFlight, re, on, la),
         NEW p \in Sync, syncing[p].at # "idle", Ended(p) \/ Finished(p)
  PROVE  Syncs(syncing', inFlight', re, on, la)
  <1>1. CASE Finished(p)
    <2>1. inFlight' = (inFlight /\ p # "poll") /\ syncing' = [syncing EXCEPT ![p] = NoSync]
      BY <1>1 DEF Finished, Goto
    <2>2. Gets(NoSync, re, on, la) /\ inFlight \in BOOLEAN  BY NoSyncGets DEF Syncs
    <2> QED  BY <2>1, <2>2, SyncsGoOn
  <1>2. CASE Ended(p) /\ ~Finished(p)
    <2> DEFINE r == [NoSync EXCEPT !.at = "visit", !.loops = TRUE]
    <2>1. inFlight' = inFlight /\ syncing' = [syncing EXCEPT ![p] = r]
      BY <1>2 DEF Ended, Goto
    <2>2. r \in SyncRecords /\ r.since = 0 /\ r.seen = 0 /\ r.at = "visit"
      BY NoSyncGets DEF SyncRecords
    <2> HIDE DEF r
    <2>3. Gets(r, re, on, la)  BY <2>2, EarlyGets
    <2>4. r # NoSync /\ syncing[p] # NoSync  BY <2>2, NoSyncGets
    <2>5. inFlight \in BOOLEAN /\ (p = "poll" => inFlight)  BY <2>4 DEF Syncs
    <2> QED  BY <2>1, <2>3, <2>4, <2>5, SyncsGoOn
  <1> QED  BY <1>1, <1>2

\* A sync at work comes to another step.
LEMMA GotoGives ==
  ASSUME ThreadAssumption, NEW re, NEW on, NEW la, Syncs(syncing, inFlight, re, on, la),
         NEW p \in Sync, syncing[p].at # "idle", NEW r, Gets(r, re, on, la), r.at # "idle",
         Goto(p, r), UNCHANGED inFlight
  PROVE  Syncs(syncing', inFlight', re, on, la)
  <1>1. r # NoSync /\ syncing[p] # NoSync  BY NoSyncGets
  <1>2. inFlight \in BOOLEAN /\ (p = "poll" => inFlight)  BY <1>1 DEF Syncs
  <1> QED  BY <1>1, <1>2, SyncsGoOn DEF Goto

\* More has come in.
LEMMA SyncsKeep ==
  ASSUME NEW sy, NEW fl, NEW re, NEW rf, re \subseteq rf, NEW on, NEW la, Syncs(sy, fl, re, on, la)
  PROVE  Syncs(sy, fl, rf, on, la)
  <1>1. \A r : Gets(r, re, on, la) => Gets(r, rf, on, la)  BY DEF Gets, Got
  <1> QED  BY <1>1 DEF Syncs

\* A step that changes only syncs.
LEMMA SyncStepKeeps ==
  ASSUME ThreadInv, up, listed' \in BOOLEAN,
         Syncs(syncing', inFlight', received, onRelay, late),
         UNCHANGED <<onRelay, member, thread, syncedAt, lastRead, armed, writing, disk, up,
                     crashes, late, received, skipped>>
  PROVE  ThreadInv'
  <1>1. ThreadTyped' /\ Down' /\ FileFollows'
    BY DEF ThreadInv, ThreadTyped, Down, FileFollows
  <1> QED  BY <1>1 DEF ThreadInv

LEMMA StartKeeps ==
  ASSUME ThreadAssumption, ThreadInv, NEW p \in Sync, NEW loops \in BOOLEAN, Start(p, loops)
  PROVE  ThreadInv'
  <1> DEFINE r == [NoSync EXCEPT !.at = IF loops THEN "list" ELSE "visit", !.loops = loops]
  <1>1. /\ up /\ inFlight' = (inFlight \/ p = "poll") /\ syncing' = [syncing EXCEPT ![p] = r]
        /\ listed' = (listed /\ ~loops)
        /\ UNCHANGED <<onRelay, member, thread, syncedAt, lastRead, armed, writing, disk, up,
                       crashes, late, received, skipped>>
    BY DEF Start, Goto
  <1>2. Syncs(syncing, inFlight, received, onRelay, late) /\ inFlight \in BOOLEAN /\ listed \in BOOLEAN
    BY DEF ThreadInv, Syncs, ThreadTyped
  <1>3. r \in SyncRecords /\ r.since = 0 /\ r.seen = 0 /\ r.at \in {"list", "visit"}
    BY NoSyncGets DEF SyncRecords
  <1> HIDE DEF r
  <1>4. r # NoSync /\ Gets(r, received, onRelay, late)  BY <1>3, EarlyGets, NoSyncGets
  <1>5. Syncs(syncing', inFlight', received, onRelay, late)
    BY <1>1, <1>2, <1>4, SyncsGoOn
  <1> QED  BY <1>1, <1>2, <1>5, SyncStepKeeps

LEMMA GroupsReadKeeps ==
  ASSUME ThreadAssumption, ThreadInv, NEW p \in Sync, GroupsRead(p)
  PROVE  ThreadInv'
  <1>1. /\ up /\ syncing[p].at = "list" /\ listed' = (listed \/ member) /\ UNCHANGED inFlight
        /\ UNCHANGED <<onRelay, member, thread, syncedAt, lastRead, armed, writing, disk, up,
                       crashes, late, received, skipped>>
    BY DEF GroupsRead
  <1>2. /\ syncing \in [Sync -> SyncRecords] /\ inFlight \in BOOLEAN
        /\ (inFlight <=> syncing["poll"] # NoSync)
        /\ \A q \in Sync : Gets(syncing[q], received, onRelay, late)
    BY DEF ThreadInv, Syncs
  <1>3. ASSUME NEW q \in Sync
        PROVE  /\ Gets(syncing'[q], received, onRelay, late)
               /\ syncing'[q] = NoSync <=> syncing[q] = NoSync
    <2> DEFINE s == syncing[q]
    <2>1. s \in SyncRecords /\ Gets(s, received, onRelay, late)  BY <1>2
    <2>2. CASE q = p
      <3>1. syncing'[q] = [s EXCEPT !.at = "visit"] /\ s.at = "list"
        BY <1>1, <2>2 DEF GroupsRead
      <3> HIDE DEF s
      <3>2. /\ syncing'[q] \in SyncRecords /\ syncing'[q].at = "visit"
            /\ syncing'[q].since = s.since /\ syncing'[q].seen = s.seen
        BY <2>1, <3>1 DEF SyncRecords
      <3> QED  BY <2>1, <3>1, <3>2, NoSyncGets DEF Gets, s
    <2>3. CASE q # p /\ syncing'[q] = [s EXCEPT !.again = TRUE] /\ s.at \in {"ask", "read"}
      <3> HIDE DEF s
      <3>1. /\ syncing'[q] \in SyncRecords /\ syncing'[q].at = s.at
            /\ syncing'[q].since = s.since /\ syncing'[q].seen = s.seen /\ syncing'[q].left = s.left
        BY <2>1, <2>3 DEF SyncRecords
      <3> QED  BY <2>1, <2>3, <3>1, NoSyncGets DEF Gets, s
    <2>4. CASE syncing'[q] = s  BY <2>1, <2>4
    <2> QED  BY <2>2, <2>3, <2>4 DEF GroupsRead
  <1>4. syncing' \in [Sync -> SyncRecords]
    <2>1. \A q \in Sync : syncing'[q] \in SyncRecords  BY <1>3 DEF Gets
    <2>2. syncing' = [q \in Sync |-> syncing'[q]]  BY DEF GroupsRead
    <2> QED  BY <2>1, <2>2
  <1>5. Syncs(syncing', inFlight', received, onRelay, late)
    BY <1>1, <1>2, <1>3, <1>4 DEF Syncs, Sync
  <1>6. listed' \in BOOLEAN  BY <1>1
  <1> QED  BY <1>1, <1>5, <1>6, SyncStepKeeps

LEMMA VisitKeeps ==
  ASSUME ThreadAssumption, ThreadInv, NEW p \in Sync, Visit(p)
  PROVE  ThreadInv'
  <1> DEFINE r == [syncing[p] EXCEPT !.at = "ask", !.since = syncedAt]
  <1>1. /\ up /\ syncing[p].at = "visit" /\ listed' \in BOOLEAN
        /\ (Goto(p, r) /\ UNCHANGED inFlight) \/ Finished(p)
        /\ UNCHANGED <<onRelay, member, thread, syncedAt, lastRead, armed, writing, disk, up,
                       crashes, late, received, skipped>>
    BY DEF Visit
  <1>2. Syncs(syncing, inFlight, received, onRelay, late) /\ Gets(syncing[p], received, onRelay, late)
    BY DEF ThreadInv, Syncs
  <1>3. /\ syncedAt \in 0..MaxNow /\ Covered(syncedAt, onRelay, late)
        /\ Got(syncedAt, received, onRelay, late)
    BY DEF ThreadInv, ThreadTyped, Whole
  <1>4. syncing[p] \in SyncRecords /\ syncing[p].seen = 0  BY <1>1, <1>2 DEF Gets
  <1>5. r \in SyncRecords /\ r.at = "ask" /\ r.since = syncedAt /\ r.seen = 0
    BY <1>3, <1>4 DEF SyncRecords
  <1> HIDE DEF r
  <1>6. Gets(r, received, onRelay, late)  BY <1>3, <1>5 DEF Gets, Covered
  <1>7. Syncs(syncing', inFlight', received, onRelay, late)
    BY <1>1, <1>2, <1>5, <1>6, GotoGives, EndedGives
  <1> QED  BY <1>1, <1>7, SyncStepKeeps

LEMMA EndsKeep ==
  ASSUME ThreadAssumption, ThreadInv, up, NEW p \in Sync, syncing[p].at # "idle", Ended(p),
         UNCHANGED <<onRelay, member, listed, thread, syncedAt, lastRead, armed, writing, disk, up,
                     crashes, late, received, skipped>>
  PROVE  ThreadInv'
  <1>1. Syncs(syncing, inFlight, received, onRelay, late) /\ listed \in BOOLEAN
    BY DEF ThreadInv, ThreadTyped
  <1>2. Syncs(syncing', inFlight', received, onRelay, late)  BY <1>1, EndedGives
  <1> QED  BY <1>1, <1>2, SyncStepKeeps

LEMMA AnswerKeeps ==
  ASSUME ThreadAssumption, ThreadInv, NEW p \in Sync, Answer(p)
  PROVE  ThreadInv'
  <1> DEFINE events == {e \in onRelay : Time[e] >= Since(syncing[p].since)}
             seen == Max({syncing[p].seen, Newest(events), syncing[p].since})
             r == [syncing[p] EXCEPT !.at = "read", !.left = events, !.seen = seen]
  <1>1. /\ up /\ syncing[p].at = "ask"
        /\ UNCHANGED <<onRelay, member, listed, thread, syncedAt, lastRead, armed, writing, disk, up,
                       crashes, late, received, skipped>>
    BY DEF Answer
  <1>2. CASE Ended(p)  BY <1>1, <1>2, EndsKeep
  <1>3. CASE events # {} /\ Goto(p, r) /\ UNCHANGED inFlight
    <2>1. /\ Syncs(syncing, inFlight, received, onRelay, late)
          /\ Gets(syncing[p], received, onRelay, late)
          /\ listed \in BOOLEAN /\ onRelay \in SUBSET Message
      BY DEF ThreadInv, ThreadTyped, Syncs
    <2>2. /\ syncing[p] \in SyncRecords /\ syncing[p].seen = 0 /\ syncing[p].since \in 0..MaxNow
          /\ Covered(syncing[p].since, onRelay, late)
          /\ Got(syncing[p].since, received, onRelay, late)
      BY <1>1, <2>1 DEF Gets, SyncRecords
    <2>3. events \in SUBSET Message  BY <2>1
    <2>4. /\ Newest(events) \in 0..MaxNow
          /\ (Newest(events) # 0 => \E e \in events : Time[e] = Newest(events))
      BY <2>3, NewestGives
    <2>5. seen = IF Newest(events) >= syncing[p].since THEN Newest(events) ELSE syncing[p].since
      <3>1. \A a, b \in 0..MaxNow : Max({0, a, b}) = IF a >= b THEN a ELSE b
        BY Times DEF Max
      <3> QED  BY <2>2, <2>4, <3>1
    <2>6. seen \in 0..MaxNow  BY <2>2, <2>4, <2>5
    <2>7. Covered(seen, onRelay, late)
      <3>1. CASE seen = Newest(events)
        <4>1. CASE seen = 0  BY <4>1 DEF Covered
        <4>2. CASE seen # 0
          <5> HIDE DEF seen
          <5>1. PICK e \in events : Time[e] = seen  BY <2>4, <3>1, <4>2
          <5>2. e \in onRelay /\ Time[e] >= seen  BY <2>6, <5>1, Times
          <5> QED  BY <5>2 DEF Covered
        <4> QED  BY <4>1, <4>2
      <3>2. CASE seen = syncing[p].since  BY <2>2, <3>2
      <3> QED  BY <2>5, <3>1, <3>2
    <2>8. /\ r \in SyncRecords /\ r.at = "read" /\ r.left = events /\ r.seen = seen
          /\ r.since = syncing[p].since
      <3> HIDE DEF events, seen
      <3> QED  BY <2>2, <2>3, <2>6 DEF SyncRecords
    <2>9. Got(seen, received \cup events, onRelay, late)
      BY <2>2 DEF Got
    <2> HIDE DEF r, events, seen
    <2>10. Gets(r, received, onRelay, late)  BY <2>2, <2>7, <2>8, <2>9 DEF Gets
    <2>11. Syncs(syncing', inFlight', received, onRelay, late)
      BY <1>1, <1>3, <2>1, <2>8, <2>10, GotoGives
    <2> QED  BY <1>1, <2>1, <2>11, SyncStepKeeps
  <1> QED  BY <1>2, <1>3 DEF Answer

LEMMA IngestKeeps ==
  ASSUME ThreadAssumption, ThreadInv, NEW p \in Sync, NEW e \in Message, Ingest(p, e)
  PROVE  ThreadInv'
  <1> DEFINE s == syncing[p]
             r == [s EXCEPT !.left = @ \ {e}]
  <1>1. /\ up /\ s.at = "read" /\ s.left # {} /\ e = First(s.left)
        /\ UNCHANGED <<onRelay, member, listed, syncedAt, lastRead, inFlight, writing, disk, up,
                       crashes, late, skipped>>
    BY DEF Ingest
  <1>2. Goto(p, r)  BY DEF Ingest
  <1>3. /\ Syncs(syncing, inFlight, received, onRelay, late) /\ Gets(s, received, onRelay, late)
        /\ Whole(syncedAt, thread, received, onRelay, late)
    BY DEF ThreadInv, Syncs
  <1>4. s \in SyncRecords /\ s.left \in SUBSET Message  BY <1>3 DEF Gets, SyncRecords
  <1>5. /\ r \in SyncRecords /\ r.at = "read" /\ r.left = s.left \ {e} /\ r.seen = s.seen
        /\ r.since = s.since
    BY <1>1, <1>4 DEF SyncRecords
  <1> HIDE DEF r, s
  <1>6. /\ received \subseteq received' /\ (e \in Own \/ e \in received')
        /\ Whole(syncedAt, thread', received', onRelay, late)
        /\ armed' \in BOOLEAN /\ (~armed' => ~armed /\ thread' = thread)
    <2>1. CASE e \in Own
      BY <1>3, <2>1 DEF Ingest, ThreadInv, ThreadTyped
    <2>2. CASE e \notin Own
      <3>1. /\ thread' = Upsert(thread, e) /\ received' = received \cup {e}
            /\ armed' = (armed \/ e \notin thread)
        BY <2>2 DEF Ingest, Schedule
      <3>2. NewestOf(thread', received') /\ (e \in thread => thread' = thread)
        BY <1>3, <3>1, UpsertKeeps DEF Whole
      <3>3. Got(syncedAt, received', onRelay, late)  BY <1>3, <3>1 DEF Got, Whole
      <3>4. armed \in BOOLEAN  BY DEF ThreadInv, ThreadTyped
      <3> QED  BY <1>3, <3>1, <3>2, <3>3, <3>4 DEF Whole
    <2> QED  BY <2>1, <2>2
  <1>7. Gets(r, received', onRelay, late)
    <2>1. Got(s.seen, received \cup s.left, onRelay, late)  BY <1>1, <1>3 DEF Gets
    <2>2. Got(r.seen, received' \cup r.left, onRelay, late)  BY <1>5, <1>6, <2>1 DEF Got
    <2> QED  BY <1>3, <1>5, <2>2 DEF Gets
  <1>8. Syncs(syncing, inFlight, received', onRelay, late)  BY <1>3, <1>6, SyncsKeep
  <1>9. Syncs(syncing', inFlight', received', onRelay, late)
    BY <1>1, <1>2, <1>5, <1>7, <1>8, GotoGives DEF s
  <1>10. FileFollows'  BY <1>1, <1>6 DEF ThreadInv, FileFollows
  <1>11. ThreadTyped' /\ Down'  BY <1>1, <1>6 DEF ThreadInv, ThreadTyped, Down
  <1> QED  BY <1>1, <1>6, <1>9, <1>10, <1>11 DEF ThreadInv

LEMMA SyncEndsKeeps ==
  ASSUME ThreadAssumption, ThreadInv, NEW p \in Sync, SyncEnds(p)
  PROVE  ThreadInv'
  <1> DEFINE s == syncing[p]
  <1>1. /\ up /\ s.at = "read" /\ s.left = {} /\ syncedAt' = Moved(p) /\ Ended(p)
        /\ UNCHANGED <<onRelay, member, listed, thread, lastRead, armed, writing, disk, up,
                       crashes, late, received, skipped>>
    BY DEF SyncEnds
  <1>2. /\ Syncs(syncing, inFlight, received, onRelay, late) /\ Gets(s, received, onRelay, late)
        /\ Whole(syncedAt, thread, received, onRelay, late) /\ syncedAt \in 0..MaxNow
    BY DEF ThreadInv, ThreadTyped, Syncs
  <1>3. /\ s.seen \in 0..MaxNow /\ Covered(s.seen, onRelay, late)
        /\ Got(s.seen, received, onRelay, late)
    BY <1>1, <1>2 DEF Gets, SyncRecords, Got
  <1>4. syncedAt' \in 0..MaxNow /\ Whole(syncedAt', thread, received, onRelay, late)
    BY <1>1, <1>2, <1>3 DEF Moved, Whole
  <1>5. Syncs(syncing', inFlight', received, onRelay, late)
    BY <1>1, <1>2, EndedGives
  <1>6. ThreadTyped' /\ Down' /\ FileFollows'
    BY <1>1, <1>4 DEF ThreadInv, ThreadTyped, Down, FileFollows
  <1> QED  BY <1>1, <1>4, <1>5, <1>6 DEF ThreadInv

\* More is on the relays, or counts as late.
Grows(on, la, ob, lb) ==
    /\ \A c : Covered(c, on, la) => Covered(c, ob, lb)
    /\ \A re : \A c \in 0..MaxNow : Covered(c, on, la) /\ Got(c, re, on, la) => Got(c, re, ob, lb)

LEMMA GrowsKeeps ==
  ASSUME NEW on, NEW la, NEW ob, NEW lb, Grows(on, la, ob, lb)
  PROVE  /\ \A th, re : \A c \in 0..MaxNow : Whole(c, th, re, on, la) => Whole(c, th, re, ob, lb)
         /\ \A f : WholeFile(f, on, la) => WholeFile(f, ob, lb)
         /\ \A sy, fl, re : Syncs(sy, fl, re, on, la) => Syncs(sy, fl, re, ob, lb)
  <1>1. ASSUME NEW c \in 0..MaxNow, NEW th, NEW re, Whole(c, th, re, on, la)
        PROVE  Whole(c, th, re, ob, lb)
    BY <1>1 DEF Whole, Grows
  <1>2. ASSUME NEW f, WholeFile(f, on, la)  PROVE WholeFile(f, ob, lb)
    <2>1. f.cursor \in 0..MaxNow  BY <1>2 DEF WholeFile, Files
    <2> QED  BY <1>1, <1>2, <2>1 DEF WholeFile
  <1>3. ASSUME NEW r, NEW re, Gets(r, re, on, la)  PROVE Gets(r, re, ob, lb)
    <2>1. r.since \in 0..MaxNow /\ r.seen \in 0..MaxNow  BY <1>3 DEF Gets, SyncRecords
    <2> QED  BY <1>3, <2>1 DEF Gets, Grows
  <1>4. ASSUME NEW sy, NEW fl, NEW re, Syncs(sy, fl, re, on, la)  PROVE Syncs(sy, fl, re, ob, lb)
    BY <1>3, <1>4 DEF Syncs
  <1> QED  BY <1>1, <1>2, <1>4

LEMMA JoinKeeps ==
  ASSUME ThreadAssumption, ThreadInv, NEW now \in 1..MaxNow, Join(now)
  PROVE  ThreadInv'
  <1> DEFINE r == [NoSync EXCEPT !.at = "visit"]
             behind == {e \in Message : Time[e] < Since(now)}
  <1>1. /\ up /\ member' = TRUE /\ listed' = TRUE /\ syncedAt' = now /\ late' = late \cup behind
        /\ armed' = TRUE /\ syncing' = [syncing EXCEPT !["once"] = r]
        /\ UNCHANGED <<onRelay, thread, lastRead, inFlight, writing, disk, up, crashes, received, skipped>>
    BY DEF Join, Schedule, Goto
  <1>2. late' \in SUBSET Message /\ late \subseteq late' /\ behind \subseteq late'
    BY <1>1 DEF ThreadInv, ThreadTyped
  <1>3. now \in 0..MaxNow /\ now \in Nat  BY Times
  <1>4. Grows(onRelay, late, onRelay, late')  BY <1>2 DEF Grows, Covered, Got
  <1>5. /\ WholeFile(writing, onRelay, late') /\ WholeFile(disk, onRelay, late')
        /\ Syncs(syncing, inFlight, received, onRelay, late')
    BY <1>4, GrowsKeeps DEF ThreadInv
  <1>6. Covered(now, onRelay, late')  BY <1>2 DEF Covered
  <1>7. Got(now, received, onRelay, late')
    <2>1. \A e \in Message : Time[e] \in 0..MaxNow /\ Since(now) \in 0..MaxNow  BY <1>3, Times
    <2>2. \A e \in Message : e \notin late' => Time[e] >= Since(now)  BY <1>2, <2>1
    <2> QED  BY <2>2 DEF Got, ThreadInv, ThreadTyped
  <1>8. Whole(now, thread, received, onRelay, late')
    BY <1>6, <1>7 DEF ThreadInv, Whole
  <1>9. r \in SyncRecords /\ r.since = 0 /\ r.seen = 0 /\ r.at = "visit"
    BY NoSyncGets DEF SyncRecords
  <1> HIDE DEF r, behind
  <1>10. Gets(r, received, onRelay, late')  BY <1>9, EarlyGets
  <1>11. inFlight \in BOOLEAN  BY DEF ThreadInv, Syncs
  <1>12. Syncs(syncing', inFlight, received, onRelay, late')
    <2>1. "once" \in Sync /\ "once" # "poll"  BY DEF Sync
    <2>2. Syncs([syncing EXCEPT !["once"] = r], inFlight, received, onRelay, late')
      BY <1>5, <1>10, <1>11, <2>1, SyncsGoOn
    <2> QED  BY <1>1, <2>2
  <1>13. ThreadTyped'  BY <1>1, <1>2, <1>3 DEF ThreadInv, ThreadTyped
  <1>14. Down' /\ FileFollows'  BY <1>1 DEF Down, FileFollows
  <1> QED  BY <1>1, <1>5, <1>8, <1>12, <1>13, <1>14 DEF ThreadInv

LEMMA SendKeeps ==
  ASSUME ThreadAssumption, ThreadInv, NEW e \in Message, Send(e)
  PROVE  ThreadInv'
  <1>1. /\ up /\ e \in Own /\ onRelay' = onRelay \cup {e} /\ listed' = TRUE /\ lastRead' = Time[e]
        /\ thread' = Upsert(thread, e) /\ received' = received \cup {e} /\ armed' = TRUE
        /\ UNCHANGED <<member, syncedAt, syncing, inFlight, writing, disk, up, crashes, late, skipped>>
    BY DEF Send, Schedule
  <1>2. onRelay \in SUBSET Message /\ late \in SUBSET Message /\ syncedAt \in 0..MaxNow
    BY DEF ThreadInv, ThreadTyped
  <1>3. Grows(onRelay, late, onRelay', late)
    BY <1>1, <1>2, ArrivalKeeps DEF Grows
  <1>4. /\ Whole(syncedAt, thread, received, onRelay', late)
        /\ WholeFile(writing, onRelay', late) /\ WholeFile(disk, onRelay', late)
        /\ Syncs(syncing, inFlight, received, onRelay', late)
    BY <1>2, <1>3, GrowsKeeps DEF ThreadInv
  <1>5. Syncs(syncing, inFlight, received', onRelay', late)  BY <1>1, <1>4, SyncsKeep
  <1>6. NewestOf(thread', received')  BY <1>1, <1>4, UpsertKeeps DEF Whole
  <1>7. Whole(syncedAt, thread', received', onRelay', late)
    BY <1>1, <1>4, <1>6 DEF Whole, Got
  <1>8. ThreadTyped'  BY <1>1, <1>2, Times DEF ThreadInv, ThreadTyped
  <1>9. Down' /\ FileFollows'  BY <1>1 DEF Down, FileFollows
  <1> QED  BY <1>1, <1>4, <1>5, <1>7, <1>8, <1>9 DEF ThreadInv

LEMMA ArriveKeeps ==
  ASSUME ThreadAssumption, ThreadInv, NEW e \in Message, Arrive(e)
  PROVE  ThreadInv'
  <1>1. /\ onRelay' = onRelay \cup {e}
        /\ late' = IF \E d \in onRelay : Time[d] > Time[e] + Overlap THEN late \cup {e} ELSE late
        /\ UNCHANGED <<member, listed, thread, syncedAt, lastRead, syncing, inFlight, armed, writing,
                       disk, up, crashes, received, skipped>>
    BY DEF Arrive
  <1>2. onRelay \in SUBSET Message /\ late \in SUBSET Message /\ syncedAt \in 0..MaxNow
    BY DEF ThreadInv, ThreadTyped
  <1>3. late \subseteq late' /\ late' \in SUBSET Message
        /\ (e \in late' \/ \A d \in onRelay : ~(Time[d] > Time[e] + Overlap))
    BY <1>1, <1>2
  <1>4. Grows(onRelay, late, onRelay', late')
    BY <1>1, <1>2, <1>3, ArrivalKeeps DEF Grows
  <1>5. /\ Whole(syncedAt, thread, received, onRelay', late')
        /\ WholeFile(writing, onRelay', late') /\ WholeFile(disk, onRelay', late')
        /\ Syncs(syncing, inFlight, received, onRelay', late')
    BY <1>2, <1>4, GrowsKeeps DEF ThreadInv
  <1>6. ThreadTyped' /\ Down' /\ FileFollows'
    BY <1>1, <1>2, <1>3 DEF ThreadInv, ThreadTyped, Down, FileFollows
  <1> QED  BY <1>1, <1>5, <1>6 DEF ThreadInv

LEMMA NothingIsWhole ==
  ASSUME ThreadAssumption, NEW on \in SUBSET Message, NEW la
  PROVE  WholeFile(Nothing, on, la) /\ Nothing.any = FALSE
  <1>1. /\ Nothing \in Files /\ Nothing.any = FALSE /\ Nothing.cursor = 0
        /\ Nothing.thread = {} /\ Nothing.received = {}
    BY Times DEF Nothing, Files
  <1>2. Covered(0, on, la)  BY DEF Covered
  <1>3. Got(0, {}, on, la)
    <2>1. \A e \in Message : Time[e] \in 0..MaxNow /\ Since(0) = 0 /\ MaxNow \in Nat  BY Times
    <2> QED  BY <2>1 DEF Got
  <1>4. NewestOf({}, {})
    <2>1. Cardinality({}) = 0 /\ Limit \in Nat  BY FS_EmptySet DEF ThreadAssumption
    <2> QED  BY <2>1 DEF NewestOf
  <1> QED  BY <1>1, <1>2, <1>3, <1>4 DEF WholeFile, Whole

LEMMA MemoryIsWhole ==
  ASSUME ThreadAssumption, ThreadInv
  PROVE  /\ WholeFile(Memory, onRelay, late) /\ Memory.any = TRUE
         /\ Follows(Memory, thread, lastRead)
  <1>1. /\ syncedAt \in 0..MaxNow /\ lastRead \in 0..MaxNow /\ received \in SUBSET Message
        /\ thread \in SUBSET Message
    BY DEF ThreadInv, ThreadTyped, Whole, NewestOf
  <1>2. /\ Memory \in Files /\ Memory.cursor = syncedAt /\ Memory.thread = thread
        /\ Memory.received = received /\ Memory.lastRead = lastRead /\ Memory.any = TRUE
    BY <1>1 DEF Memory, Files
  <1> QED  BY <1>2 DEF WholeFile, ThreadInv, Follows

LEMMA PersistTimerKeeps ==
  ASSUME ThreadAssumption, ThreadInv, PersistTimer
  PROVE  ThreadInv'
  <1>1. /\ up /\ armed' = FALSE /\ skipped' = writing.any
        /\ writing' = IF writing.any THEN writing ELSE Memory
        /\ UNCHANGED <<onRelay, member, listed, thread, syncedAt, lastRead, syncing, inFlight,
                       disk, up, crashes, late, received>>
    BY DEF PersistTimer
  <1>2. writing.any \in BOOLEAN  BY DEF ThreadInv, WholeFile, Files
  <1>3. WholeFile(writing', onRelay, late)
    BY <1>1, MemoryIsWhole DEF ThreadInv
  <1>4. FileFollows'  BY <1>1, <1>2, MemoryIsWhole DEF FileFollows, Follows
  <1>5. ThreadTyped' /\ Down'  BY <1>1, <1>2 DEF ThreadInv, ThreadTyped, Down
  <1> QED  BY <1>1, <1>3, <1>4, <1>5 DEF ThreadInv

LEMMA WrittenKeeps ==
  ASSUME ThreadAssumption, ThreadInv, Written
  PROVE  ThreadInv'
  <1>1. /\ up /\ writing.any /\ disk' = writing /\ writing' = Nothing
        /\ UNCHANGED <<onRelay, member, listed, thread, syncedAt, lastRead, syncing, inFlight,
                       armed, up, crashes, late, received, skipped>>
    BY DEF Written
  <1>2. onRelay \in SUBSET Message  BY DEF ThreadInv, ThreadTyped
  <1>3. WholeFile(writing', onRelay, late) /\ writing'.any = FALSE
    BY <1>1, <1>2, NothingIsWhole
  <1>4. FileFollows'  BY <1>1, <1>3 DEF ThreadInv, FileFollows
  <1>5. ThreadTyped' /\ Down'  BY <1>1 DEF ThreadInv, ThreadTyped, Down
  <1> QED  BY <1>1, <1>3, <1>4, <1>5 DEF ThreadInv

\* The worker ends, with the file as it is or written once more.
LEMMA ForgetKeeps ==
  ASSUME ThreadAssumption, ThreadInv, Forget, WholeFile(disk', onRelay, late),
         crashes < MaxCrashes, crashes' = crashes + 1,
         UNCHANGED <<onRelay, member, thread, syncedAt, lastRead, late, received, skipped>>
  PROVE  ThreadInv'
  <1>1. /\ syncing' = [p \in Sync |-> NoSync] /\ inFlight' = FALSE /\ armed' = FALSE
        /\ writing' = Nothing /\ up' = FALSE /\ listed' = FALSE
    BY DEF Forget
  <1>2. crashes' \in 0..MaxCrashes  BY DEF ThreadInv, ThreadTyped, ThreadAssumption
  <1>3. ThreadTyped'  BY <1>1, <1>2 DEF ThreadInv, ThreadTyped
  <1>4. Down' /\ FileFollows'  BY <1>1 DEF Down, FileFollows
  <1>5. WholeFile(writing', onRelay, late)
    BY <1>1, NothingIsWhole DEF ThreadInv, ThreadTyped
  <1>6. Syncs(syncing', inFlight', received, onRelay, late)
    BY <1>1, NoSyncGets DEF Syncs, Sync
  <1> QED  BY <1>3, <1>4, <1>5, <1>6 DEF ThreadInv

LEMMA CrashOrStopKeeps ==
  ASSUME ThreadAssumption, ThreadInv, ThreadCrash \/ ThreadStop
  PROVE  ThreadInv'
  <1>1. CASE ThreadCrash
    <2>1. WholeFile(disk', onRelay, late)  BY <1>1 DEF ThreadCrash, ThreadInv
    <2> QED  BY <1>1, <2>1, ForgetKeeps DEF ThreadCrash
  <1>2. CASE ThreadStop
    <2>1. WholeFile(disk', onRelay, late)  BY <1>2, MemoryIsWhole DEF ThreadStop, ThreadInv
    <2> QED  BY <1>2, <2>1, ForgetKeeps DEF ThreadStop
  <1> QED  BY <1>1, <1>2

LEMMA InitializeKeeps ==
  ASSUME ThreadAssumption, ThreadInv, Initialize
  PROVE  ThreadInv'
  <1>1. /\ ~up /\ up' = TRUE /\ thread' = disk.thread /\ syncedAt' = disk.cursor
        /\ lastRead' = disk.lastRead /\ received' = disk.received /\ skipped' = FALSE
        /\ listed' = member
        /\ UNCHANGED <<onRelay, member, syncing, inFlight, armed, writing, disk, crashes, late>>
    BY DEF Initialize
  <1>2. /\ syncing = [p \in Sync |-> NoSync] /\ ~inFlight /\ writing = Nothing
        /\ inFlight \in BOOLEAN /\ writing.any = FALSE
    BY <1>1, NothingIsWhole DEF ThreadInv, Down, ThreadTyped, Syncs
  <1>3. disk \in Files /\ Whole(disk.cursor, disk.thread, disk.received, onRelay, late)
    BY DEF ThreadInv, WholeFile
  <1>4. disk.cursor \in 0..MaxNow /\ disk.lastRead \in 0..MaxNow  BY <1>3 DEF Files
  <1>5. ThreadTyped'  BY <1>1, <1>4 DEF ThreadInv, ThreadTyped
  <1>6. Down' /\ FileFollows'  BY <1>1, <1>2 DEF Down, FileFollows, Follows
  <1>7. Syncs(syncing', inFlight', received', onRelay, late)
    BY <1>1, <1>2, NoSyncGets DEF Syncs, Sync
  <1> QED  BY <1>1, <1>3, <1>5, <1>6, <1>7 DEF ThreadInv

LEMMA MarkReadKeeps ==
  ASSUME ThreadAssumption, ThreadInv, MarkRead
  PROVE  ThreadInv'
  <1>1. /\ up /\ lastRead' = Newest(thread) /\ armed' = TRUE
        /\ UNCHANGED <<onRelay, member, listed, thread, syncedAt, syncing, inFlight, writing, disk,
                       up, crashes, late, received, skipped>>
    BY DEF MarkRead, Schedule
  <1>2. thread \in SUBSET Message  BY DEF ThreadInv, Whole, NewestOf
  <1>3. lastRead' \in 0..MaxNow  BY <1>1, <1>2, NewestGives
  <1>4. ThreadTyped' /\ Down' /\ FileFollows'
    BY <1>1, <1>3 DEF ThreadInv, ThreadTyped, Down, FileFollows
  <1> QED  BY <1>1, <1>4 DEF ThreadInv

LEMMA ThreadStart ==
  ASSUME ThreadAssumption, ThreadInit
  PROVE  ThreadInv
  <1>1. WholeFile(Nothing, {}, {}) /\ Nothing.any = FALSE /\ Nothing.thread = {}
        /\ Nothing.cursor = 0 /\ Nothing.received = {} /\ Nothing.lastRead = 0
    BY NothingIsWhole DEF Nothing
  <1>2. ThreadTyped
    <2>1. MaxCrashes \in Nat /\ MaxNow \in Nat  BY DEF ThreadAssumption
    <2>2. 0 \in 0..MaxCrashes /\ 0 \in 0..MaxNow  BY <2>1
    <2>3. /\ onRelay = {} /\ late = {} /\ member = FALSE /\ listed = FALSE /\ armed = FALSE
          /\ up = TRUE /\ skipped = FALSE /\ syncedAt = 0 /\ lastRead = 0 /\ crashes = 0
      BY DEF ThreadInit
    <2> QED  BY <2>2, <2>3 DEF ThreadTyped
  <1>3. Down /\ FileFollows  BY <1>1 DEF ThreadInit, Down, FileFollows, Follows
  <1>4. Syncs(syncing, inFlight, received, onRelay, late)
    BY NoSyncGets DEF ThreadInit, Syncs, Sync
  <1> QED  BY <1>1, <1>2, <1>3, <1>4 DEF ThreadInit, ThreadInv, WholeFile

LEMMA ThreadStep ==
  ASSUME ThreadAssumption, ThreadInv, [ThreadNext]_threadVars
  PROVE  ThreadInv'
  <1>1. CASE UNCHANGED threadVars
    BY <1>1 DEF threadVars, ThreadInv, ThreadTyped, Down, FileFollows
  <1>2. CASE Poll \/ SyncOnce  BY <1>2, StartKeeps DEF Poll, SyncOnce, Sync
  <1>3. ASSUME NEW p \in Sync, Step(p)  PROVE ThreadInv'
    <2>1. CASE NoAnswer(p) \/ IngestThrows(p)
      BY <2>1, EndsKeep DEF NoAnswer, IngestThrows, Thrown
    <2> QED
      BY <1>3, <2>1, GroupsReadKeeps, VisitKeeps, AnswerKeeps, IngestKeeps, SyncEndsKeeps DEF Step
  <1> QED
    BY <1>1, <1>2, <1>3, PersistTimerKeeps, WrittenKeeps, CrashOrStopKeeps, InitializeKeeps,
       MarkReadKeeps, JoinKeeps, SendKeeps, ArriveKeeps
    DEF ThreadNext

LEMMA ThreadsHold ==
  ASSUME ThreadAssumption, ThreadInv
  PROVE  ThreadsKeep /\ ThreadTypeOK
  <1>1. NothingMissed
    BY DEF NothingMissed, ThreadInv, Whole, WholeFile, Got
  <1>2. ThreadIsNewest
    <2>1. NewestOf(thread, received) /\ received \in SUBSET Message /\ Limit \in Nat
      BY DEF ThreadInv, Whole, NewestOf, ThreadAssumption
    <2>2. Cardinality(received) \in Nat  BY <2>1, Finite
    <2>3. Cardinality(thread) = Min({Limit, Cardinality(received)})
      BY <2>1, <2>2, MinOfTwo DEF NewestOf
    <2> QED  BY <2>1, <2>3 DEF ThreadIsNewest, NewestOf
  <1>3. FileIsCurrent  BY DEF FileIsCurrent, ThreadInv, FileFollows, Follows
  <1>4. OneFlight  BY DEF OneFlight, ThreadInv, Syncs
  <1>5. ThreadTypeOK
    <2>1. \A p \in Sync : syncing[p].at \in {"idle", "list", "visit", "ask", "read"}
      BY DEF ThreadInv, Syncs, SyncRecords
    <2>2. inFlight \in BOOLEAN  BY DEF ThreadInv, Syncs
    <2>3. thread \subseteq Message /\ received \subseteq Message
      BY DEF ThreadInv, Whole, NewestOf
    <2> QED  BY <2>1, <2>2, <2>3 DEF ThreadTypeOK, ThreadInv, ThreadTyped
  <1> QED  BY <1>1, <1>2, <1>3, <1>4, <1>5 DEF ThreadsKeep

(* Whatever polls, joins, sends and restarts overlap, for any messages and *)
(* any limit: no message that came to the relays in time is behind the     *)
(* cursor of a conversation without having come in, its thread is the      *)
(* newest of what came in, the file is current, and one syncAll runs at a  *)
(* time (ingestConversationEvent, lastSyncAt and syncInFlight of marmot-   *)
(* service.mjs).                                                           *)
THEOREM ThreadsKept ==
  ASSUME ThreadAssumption
  PROVE  ThreadSpec => []ThreadsKeep
  <1>1. ThreadInit => ThreadInv  BY ThreadStart
  <1>2. ThreadInv /\ [ThreadNext]_threadVars => ThreadInv'  BY ThreadStep
  <1>3. ThreadInv => ThreadsKeep  BY ThreadsHold
  <1> QED  BY <1>1, <1>2, <1>3, PTL DEF ThreadSpec

-----------------------------------------------------------------------------
(* Polls                                                                   *)

Moments == {0} \cup {At[e] : e \in Event}

\* The events that a group of queries asks for, and a sequence of groups.
Any(g) == UNION {g[k] : k \in DOMAIN g}
InAll(G, e) == \A j \in DOMAIN G : e \in Any(G[j])

\* A filter that is being answered has read the groups G but for the queries qs:
\* found has what they asked for, and nothing else.
Reading(G, qs, found, before) ==
    LET n == Len(found) IN
    /\ n \in DOMAIN G /\ Len(qs) >= 1 /\ n + Len(qs) = Len(G) + 1
    /\ \A j \in 2..Len(qs) : qs[j] = G[n + j - 1]
    /\ Any(qs[1]) \subseteq Any(G[n])
    /\ \A j \in 1..n : Range(found[j]) \subseteq Any(G[j])
    /\ \A j \in 1..(n - 1) : before \cap Any(G[j]) \subseteq Range(found[j])
    /\ before \cap Any(G[n]) \subseteq Range(found[n]) \cup Any(qs[1])

PollRecords ==
    [at : Nat, base : Moments, next : Moments, queries : Seq(Seq(SUBSET Event)),
     found : Seq(Seq(Event)), before : SUBSET Event]

PollTyped ==
    /\ poll \in PollRecords
    /\ poll.at \in 0..(Len(filters) + 1) /\ poll.before \in SUBSET log
    /\ poll.found \in Seq(Seq(log))
    /\ poll.at = 0 => poll = NoPoll
    /\ poll.at # 0 => poll.base = cursor
    /\ poll.at = 1 => poll.next = cursor
    /\ poll.at \in DOMAIN filters =>
         Reading(Groups(filters[poll.at], poll.base), poll.queries, poll.found, poll.before)
    /\ poll.at \notin DOMAIN filters => poll.queries = <<>>

ReplayTyped ==
    /\ log \in SUBSET Event /\ IsFiniteSet(log) /\ (\E n \in Nat : \A e \in log : At[e] <= n)
    /\ filters \in Subscriptions /\ cursor \in Moments
    /\ returned \in [Event -> 0..MaxReturns]

\* With one filter the cursor is not before its "since", and what was returned
\* is not after the cursor.
OneFilter ==
    Len(filters) = 1 =>
        /\ cursor = 0 \/ cursor >= filters[1].since
        /\ poll.next = 0 \/ poll.next >= filters[1].since
        /\ \A e \in Event : returned[e] > 0 => At[e] <= (IF poll.at = 2 THEN poll.next ELSE cursor)

ReplayInv == ReplayTyped /\ PollTyped /\ OneFilter /\ PollIsComplete /\ SingleFilterOnce

-----------------------------------------------------------------------------
(* A range read *)

LEMMA EarlierIsOrder ==
  ASSUME EventAssumption
  PROVE  /\ \A d, e \in Event : Earlier(d, e) \/ Earlier(e, d) \/ d = e
         /\ \A d, e \in Event : ~(Earlier(d, e) /\ Earlier(e, d)) /\ ~Earlier(e, e)
         /\ \A c, d, e \in Event : Earlier(c, d) /\ Earlier(d, e) => Earlier(c, e)
  <1>1. \A e \in Event : At[e] \in Nat /\ Rank[e] \in Nat  BY DEF EventAssumption
  <1>2. \A d, e \in Event : Rank[d] = Rank[e] => d = e  BY DEF EventAssumption
  <1> QED  BY <1>1, <1>2 DEF Earlier

\* The places of the events of S are 0 .. Cardinality(S) - 1, one for each.
LEMMA PlacesGive ==
  ASSUME EventAssumption, NEW S \in SUBSET Event, IsFiniteSet(S)
  PROVE  LET place == [e \in S |-> Cardinality({d \in S : Earlier(d, e)})]
             n == Cardinality(S)
         IN  /\ n \in Nat /\ place \in [S -> 0..(n - 1)]
             /\ \A d, e \in S : place[d] = place[e] => d = e
             /\ \A i \in 0..(n - 1) : \E e \in S : place[e] = i
  <1> DEFINE Below(e) == {d \in S : Earlier(d, e)}
             place == [e \in S |-> Cardinality(Below(e))]
             n == Cardinality(S)
  <1>1. n \in Nat  BY FS_CardinalityType
  <1>2. \A e \in S : Below(e) \in SUBSET S /\ IsFiniteSet(Below(e)) /\ Cardinality(Below(e)) \in Nat
    BY FS_Subset, FS_CardinalityType
  <1>3. \A e \in S : place[e] \in 0..(n - 1)
    <2> TAKE e \in S
    <2>1. e \notin Below(e)  BY EarlierIsOrder
    <2>2. Cardinality(Below(e)) <= n /\ (Cardinality(Below(e)) = n => Below(e) = S)  BY <1>2, FS_Subset
    <2> QED  BY <1>1, <1>2, <2>1, <2>2
  <1>4. \A d, e \in S : Earlier(d, e) => place[d] < place[e]
    <2> SUFFICES ASSUME NEW d \in S, NEW e \in S, Earlier(d, e)  PROVE place[d] < place[e]
      OBVIOUS
    <2>1. Below(d) \in SUBSET Below(e) /\ d \in Below(e) /\ d \notin Below(d)  BY EarlierIsOrder
    <2>2. Cardinality(Below(d)) <= Cardinality(Below(e)) /\ (Cardinality(Below(e)) = Cardinality(Below(d)) => Below(e) = Below(d))
      BY <1>2, <2>1, FS_Subset
    <2> QED  BY <1>2, <2>1, <2>2
  <1>5. \A d, e \in S : place[d] = place[e] => d = e
    <2> SUFFICES ASSUME NEW d \in S, NEW e \in S, place[d] = place[e], d # e  PROVE FALSE
      OBVIOUS
    <2>1. place[d] \in Nat /\ place[e] \in Nat  BY <1>2
    <2>2. Earlier(d, e) \/ Earlier(e, d)  BY EarlierIsOrder
    <2> QED  BY <1>4, <2>1, <2>2
  <1>6. \A i \in 0..(n - 1) : \E e \in S : place[e] = i
    <2>1. IsFiniteSet(0..(n - 1)) /\ Cardinality(0..(n - 1)) = n
      BY <1>1, FS_Interval
    <2> HIDE DEF place
    <2>2. place \in [S -> 0..(n - 1)]  BY <1>3 DEF place
    <2>3. place \in Injection(S, 0..(n - 1))  BY <1>5, <2>2 DEF Injection, IsInjective
    <2>4. place \in Surjection(S, 0..(n - 1))  BY <2>1, <2>3, FS_Injection
    <2> QED  BY <2>4 DEF Surjection
  <1> HIDE DEF Below, n
  <1>7. place \in [S -> 0..(n - 1)]  BY <1>3
  <1> QED  BY <1>1, <1>5, <1>6, <1>7 DEF n, Below

LEMMA StreamReads ==
  ASSUME EventAssumption, log \in SUBSET Event, IsFiniteSet(log), NEW q \in SUBSET Event
  PROVE  Stream(q) \in Seq(log) /\ Range(Stream(q)) = q \cap log
  <1> DEFINE S == q \cap log
             place == [e \in S |-> Cardinality({d \in S : Earlier(d, e)})]
             n == Cardinality(S)
             s == [i \in 1..n |-> CHOOSE e \in S : place[e] = i - 1]
  <1>1. S \in SUBSET Event /\ IsFiniteSet(S)  BY FS_Subset
  <1>2. /\ n \in Nat /\ place \in [S -> 0..(n - 1)]
        /\ \A d, e \in S : place[d] = place[e] => d = e
        /\ \A i \in 0..(n - 1) : \E e \in S : place[e] = i
    BY <1>1, PlacesGive
  <1>3. Stream(q) = s
    <2>1. \A i \in 1..n : (CHOOSE e \in S : place[e] = i - 1)
                        = (CHOOSE e \in S : Cardinality({d \in S : Earlier(d, e)}) = i - 1)
      OBVIOUS
    <2> QED  BY <2>1 DEF Stream
  <1> HIDE DEF place, n
  <1>4. \A i \in 1..n : s[i] \in S /\ place[s[i]] = i - 1
    <2> TAKE i \in 1..n
    <2>1. i - 1 \in 0..(n - 1)  BY <1>2
    <2>2. \E e \in S : place[e] = i - 1  BY <1>2, <2>1
    <2> QED  BY <2>2
  <1>5. s \in Seq(log)  BY <1>2, <1>4
  <1>6. S \subseteq Range(s)
    <2> SUFFICES ASSUME NEW e \in S  PROVE e \in Range(s)
      OBVIOUS
    <2>1. place[e] \in 0..(n - 1)  BY <1>2
    <2>2. place[e] + 1 \in 1..n /\ (place[e] + 1) - 1 = place[e]  BY <1>2, <2>1
    <2>3. s[place[e] + 1] \in S /\ place[s[place[e] + 1]] = place[e]  BY <1>4, <2>2
    <2>4. s[place[e] + 1] = e  BY <1>2, <2>3
    <2> QED  BY <2>2, <2>4 DEF Range
  <1>7. Range(s) \subseteq S  BY <1>4 DEF Range
  <1> QED  BY <1>3, <1>5, <1>6, <1>7

-----------------------------------------------------------------------------
(* The queries of a filter *)

LEMMA AnyHas ==
  ASSUME NEW g, NEW e
  PROVE  e \in Any(g) <=> \E k \in DOMAIN g : e \in g[k]
  BY DEF Any

LEMMA InAllConcat ==
  ASSUME NEW T, NEW s \in Seq(T), NEW t \in Seq(T), NEW e
  PROVE  /\ s \o t \in Seq(T)
         /\ InAll(s \o t, e) <=> InAll(s, e) /\ InAll(t, e)
         /\ s \o t = <<>> <=> s = <<>> /\ t = <<>>
  <1>1. s \o t \in Seq(T) /\ Len(s \o t) = Len(s) + Len(t)  OBVIOUS
  <1>2. \A j \in 1..Len(s) : (s \o t)[j] = s[j]  OBVIOUS
  <1>3. \A j \in 1..Len(t) : (s \o t)[Len(s) + j] = t[j]  OBVIOUS
  <1>4. ASSUME InAll(s \o t, e)  PROVE InAll(s, e) /\ InAll(t, e)
    <2>1. \A j \in 1..Len(s) : j \in 1..Len(s \o t)  BY <1>1
    <2>2. \A j \in 1..Len(t) : Len(s) + j \in 1..Len(s \o t)  BY <1>1
    <2> QED  BY <1>1, <1>2, <1>3, <1>4, <2>1, <2>2 DEF InAll
  <1>5. ASSUME InAll(s, e), InAll(t, e)  PROVE InAll(s \o t, e)
    <2> SUFFICES ASSUME NEW j \in 1..Len(s \o t)  PROVE e \in Any((s \o t)[j])
      BY <1>1 DEF InAll
    <2>1. CASE j <= Len(s)  BY <1>2, <1>5, <2>1 DEF InAll
    <2>2. CASE j > Len(s)
      <3>1. j - Len(s) \in 1..Len(t) /\ j = Len(s) + (j - Len(s))  BY <1>1, <2>2
      <3> QED  BY <1>3, <1>5, <3>1 DEF InAll
    <2> QED  BY <2>1, <2>2
  <1>6. s \o t = <<>> <=> s = <<>> /\ t = <<>>  BY <1>1
  <1> QED  BY <1>1, <1>4, <1>5, <1>6

LEMMA SequenceHas ==
  ASSUME NEW s, IsSequence(s)
  PROVE  /\ Len(s) \in Nat /\ DOMAIN s = 1..Len(s) /\ s \in Seq(Range(s))
         /\ \A x : x \in Range(s) <=> \E i \in DOMAIN s : s[i] = x
         /\ s = <<>> <=> Len(s) = 0
  BY DEF IsSequence, Range

\* What the group G of one field, with these values, comes to.
GroupSays(G, f, base, values, field) ==
    /\ G \in Seq(Seq(SUBSET Event)) /\ (G = <<>> <=> values = <<>>)
    /\ \A e \in Event : InAll(G, e) <=>
          (values # <<>> => field[e] \in Range(values) /\ InRange(f, base, e))

LEMMA GroupGives ==
  ASSUME NEW f, NEW base, NEW values, IsSequence(values), NEW field
  PROVE  GroupSays(GroupOf(f, base, values, field), f, base, values, field)
  <1>1. CASE values = <<>>  BY <1>1 DEF GroupOf, InAll, GroupSays
  <1>2. CASE values # <<>>
    <2> DEFINE g == [i \in DOMAIN values |-> {e \in Event : field[e] = values[i] /\ InRange(f, base, e)}]
    <2>1. GroupOf(f, base, values, field) = <<g>>  BY <1>2 DEF GroupOf
    <2>2. g \in Seq(SUBSET Event)  BY SequenceHas
    <2>3. \A e \in Event : e \in Any(g) <=> field[e] \in Range(values) /\ InRange(f, base, e)
      BY SequenceHas, AnyHas
    <2> HIDE DEF g
    <2>4. <<g>> \in Seq(Seq(SUBSET Event)) /\ <<g>> # <<>>  BY <2>2
    <2>5. \A e : InAll(<<g>>, e) <=> e \in Any(g)  BY DEF InAll
    <2> QED  BY <1>2, <2>1, <2>3, <2>4, <2>5 DEF GroupSays
  <1> QED  BY <1>1, <1>2

TagGroups(f, base) ==
    [t \in DOMAIN f.tags |->
        [i \in DOMAIN f.tags[t][2] |->
            {e \in Event : <<f.tags[t][1], f.tags[t][2][i]>> \in TagsOf[e] /\ InRange(f, base, e)}]]

LEMMA TagsGive ==
  ASSUME NEW f, NEW base, IsFilter(f)
  PROVE  LET G == TagGroups(f, base) IN
         /\ G \in Seq(Seq(SUBSET Event)) /\ (G = <<>> <=> f.tags = <<>>)
         /\ \A e \in Event : InAll(G, e) <=>
              \A t \in DOMAIN f.tags : HasTag(e, f.tags[t][1], f.tags[t][2]) /\ InRange(f, base, e)
  <1> DEFINE g(t) == [i \in DOMAIN f.tags[t][2] |->
                        {e \in Event : <<f.tags[t][1], f.tags[t][2][i]>> \in TagsOf[e] /\ InRange(f, base, e)}]
             G == [t \in DOMAIN f.tags |-> g(t)]
  <1>1. TagGroups(f, base) = G  BY DEF TagGroups
  <1>2. Len(f.tags) \in Nat /\ DOMAIN f.tags = 1..Len(f.tags) /\ (f.tags = <<>> <=> Len(f.tags) = 0)
    BY SequenceHas DEF IsFilter
  <1>3. ASSUME NEW t \in DOMAIN f.tags
        PROVE  /\ g(t) \in Seq(SUBSET Event)
               /\ \A e \in Event : e \in Any(g(t)) <=>
                    HasTag(e, f.tags[t][1], f.tags[t][2]) /\ InRange(f, base, e)
    <2>1. IsSequence(f.tags[t][2])  BY DEF IsFilter
    <2>2. Len(f.tags[t][2]) \in Nat /\ DOMAIN f.tags[t][2] = 1..Len(f.tags[t][2])  BY <2>1, SequenceHas
    <2>3. g(t) \in Seq(SUBSET Event)  BY <2>2
    <2>4. ASSUME NEW e \in Event
          PROVE  e \in Any(g(t)) <=> HasTag(e, f.tags[t][1], f.tags[t][2]) /\ InRange(f, base, e)
      <3>1. e \in Any(g(t)) <=> \E i \in DOMAIN f.tags[t][2] : e \in g(t)[i]
        <4>1. DOMAIN g(t) = DOMAIN f.tags[t][2]  OBVIOUS
        <4> HIDE DEF g
        <4> QED  BY <4>1, AnyHas
      <3>2. \A i \in DOMAIN f.tags[t][2] : e \in g(t)[i] <=>
                <<f.tags[t][1], f.tags[t][2][i]>> \in TagsOf[e] /\ InRange(f, base, e)
        OBVIOUS
      <3> HIDE DEF g
      <3> QED  BY <3>1, <3>2 DEF HasTag
    <2> QED  BY <2>3, <2>4
  <1> HIDE DEF g
  <1>4. G \in Seq(Seq(SUBSET Event)) /\ (G = <<>> <=> f.tags = <<>>)  BY <1>2, <1>3
  <1>5. \A e : InAll(G, e) <=> \A t \in DOMAIN f.tags : e \in Any(g(t))  BY DEF InAll
  <1> QED  BY <1>1, <1>3, <1>4, <1>5

\* What the queries of a filter ask for.
Asks(f, base, e) ==
    IF f.ids # <<>> THEN e \in Range(f.ids) /\ IdMatches(f, base, e)
    ELSE /\ InRange(f, base, e)
         /\ f.kinds # <<>> => KindOf[e] \in Range(f.kinds)
         /\ f.authors # <<>> => Author[e] \in Range(f.authors)
         /\ \A t \in DOMAIN f.tags : HasTag(e, f.tags[t][1], f.tags[t][2])

LEMMA IndexGives ==
  ASSUME NEW f, NEW base, IsFilter(f)
  PROVE  LET G == IndexGroups(f, base) IN
         /\ G \in Seq(Seq(SUBSET Event))
         /\ G = <<>> <=> f.kinds = <<>> /\ f.authors = <<>> /\ f.tags = <<>>
         /\ G # <<>> => \A e \in Event : InAll(G, e) <=>
                /\ InRange(f, base, e)
                /\ f.kinds # <<>> => KindOf[e] \in Range(f.kinds)
                /\ f.authors # <<>> => Author[e] \in Range(f.authors)
                /\ \A t \in DOMAIN f.tags : HasTag(e, f.tags[t][1], f.tags[t][2])
  <1> DEFINE T == Seq(SUBSET Event)
             A == GroupOf(f, base, f.kinds, KindOf)
             B == GroupOf(f, base, f.authors, Author)
             C == TagGroups(f, base)
  <1>1. IsSequence(f.kinds) /\ IsSequence(f.authors) /\ IsSequence(f.tags)  BY DEF IsFilter
  <1>2. /\ A \in Seq(Seq(SUBSET Event)) /\ (A = <<>> <=> f.kinds = <<>>)
        /\ \A e \in Event : InAll(A, e) <=>
             (f.kinds # <<>> => KindOf[e] \in Range(f.kinds) /\ InRange(f, base, e))
    <2>1. GroupSays(A, f, base, f.kinds, KindOf)  BY <1>1, GroupGives
    <2> HIDE DEF A
    <2> QED  BY <2>1 DEF GroupSays
  <1>3. /\ B \in Seq(Seq(SUBSET Event)) /\ (B = <<>> <=> f.authors = <<>>)
        /\ \A e \in Event : InAll(B, e) <=>
             (f.authors # <<>> => Author[e] \in Range(f.authors) /\ InRange(f, base, e))
    <2>1. GroupSays(B, f, base, f.authors, Author)  BY <1>1, GroupGives
    <2> HIDE DEF B
    <2> QED  BY <2>1 DEF GroupSays
  <1>4. /\ C \in Seq(Seq(SUBSET Event)) /\ (C = <<>> <=> f.tags = <<>>)
        /\ \A e \in Event : InAll(C, e) <=>
             \A t \in DOMAIN f.tags : HasTag(e, f.tags[t][1], f.tags[t][2]) /\ InRange(f, base, e)
    BY TagsGive
  <1>5. IndexGroups(f, base) = (A \o B) \o C  BY DEF IndexGroups, TagGroups
  <1>6. f.tags # <<>> => DOMAIN f.tags # {}  BY <1>1, SequenceHas
  <1> HIDE DEF A, B, C, T
  <1>7. /\ A \o B \in Seq(T) /\ (A \o B = <<>> <=> A = <<>> /\ B = <<>>)
        /\ \A e : InAll(A \o B, e) <=> InAll(A, e) /\ InAll(B, e)
    BY <1>2, <1>3, InAllConcat DEF T
  <1>8. /\ (A \o B) \o C \in Seq(T) /\ ((A \o B) \o C = <<>> <=> A \o B = <<>> /\ C = <<>>)
        /\ \A e : InAll((A \o B) \o C, e) <=> InAll(A \o B, e) /\ InAll(C, e)
    BY <1>4, <1>7, InAllConcat DEF T
  <1>9. IndexGroups(f, base) \in Seq(Seq(SUBSET Event))  BY <1>5, <1>8 DEF T
  <1> QED  BY <1>2, <1>3, <1>4, <1>5, <1>6, <1>7, <1>8, <1>9

\* A filter's queries are sequences of sequences, and what is in every group is
\* what the filter asks for.
LEMMA GroupsGive ==
  ASSUME NEW f, NEW base, IsFilter(f)
  PROVE  LET G == Groups(f, base) IN
         /\ G \in Seq(Seq(SUBSET Event)) /\ G # <<>>
         /\ \A e \in Event : InAll(G, e) <=> Asks(f, base, e)
  <1>1. CASE f.ids # <<>>
    <2> DEFINE g == [i \in DOMAIN f.ids |-> {f.ids[i]} \cap {e \in Event : IdMatches(f, base, e)}]
    <2>1. Groups(f, base) = <<g>>  BY <1>1 DEF Groups
    <2>2. IsSequence(f.ids)  BY DEF IsFilter
    <2>3. g \in Seq(SUBSET Event)
      <3>1. Len(f.ids) \in Nat /\ DOMAIN f.ids = 1..Len(f.ids)  BY <2>2, SequenceHas
      <3> QED  BY <3>1
    <2>4. \A e \in Event : e \in Any(g) <=> e \in Range(f.ids) /\ IdMatches(f, base, e)
      BY <2>2, SequenceHas, AnyHas
    <2> HIDE DEF g
    <2>5. <<g>> \in Seq(Seq(SUBSET Event)) /\ <<g>> # <<>>  BY <2>3
    <2>6. \A e : InAll(<<g>>, e) <=> e \in Any(g)  BY DEF InAll
    <2> QED  BY <1>1, <2>1, <2>4, <2>5, <2>6 DEF Asks
  <1>2. CASE f.ids = <<>> /\ IndexGroups(f, base) = <<>>
    <2> DEFINE q == {e \in Event : InRange(f, base, e)}
               g == << q >>
    <2>1. Groups(f, base) = <<g>>  BY <1>2 DEF Groups
    <2>2. g \in Seq(SUBSET Event) /\ \A e : e \in Any(g) <=> e \in q  BY DEF Any
    <2>3. f.kinds = <<>> /\ f.authors = <<>> /\ f.tags = <<>>  BY <1>2, IndexGives
    <2>4. DOMAIN f.tags = {}  BY <2>3
    <2>5. \A e \in Event : e \in q <=> Asks(f, base, e)  BY <1>2, <2>3, <2>4 DEF Asks
    <2> HIDE DEF g
    <2>6. <<g>> \in Seq(Seq(SUBSET Event)) /\ <<g>> # <<>>  BY <2>2
    <2>7. \A e : InAll(<<g>>, e) <=> e \in Any(g)  BY DEF InAll
    <2> QED  BY <2>1, <2>2, <2>5, <2>6, <2>7
  <1>3. CASE f.ids = <<>> /\ IndexGroups(f, base) # <<>>
    <2>1. Groups(f, base) = IndexGroups(f, base)  BY <1>3 DEF Groups
    <2> QED  BY <1>3, <2>1, IndexGives DEF Asks
  <1> QED  BY <1>1, <1>2, <1>3

\* What a filter's queries ask for is what the filter matches, from the cursor on.
LEMMA AsksMatch ==
  ASSUME EventAssumption, NEW f, IsFilter(f), NEW base \in Moments, NEW e \in Event
  PROVE  /\ Asks(f, base, e) =>
              /\ Matches(f, e) /\ At[e] >= (IF base > 0 THEN base ELSE f.since)
              /\ f.ids = <<>> => At[e] > base
         /\ Asked(f, e) /\ At[e] > base /\ At[e] # f.until => Asks(f, base, e)
  <1>1. At[e] \in Nat /\ At[e] > 0 /\ base \in Nat  BY DEF EventAssumption, Moments
  <1>2. f.since \in Nat /\ f.until \in Nat  BY DEF IsFilter
  <1>3. InRange(f, base, e) <=>
           /\ At[e] >= (IF base > 0 THEN base + 1 ELSE f.since)
           /\ f.until # 0 => At[e] < f.until
    BY DEF InRange, From
  <1>4. IdMatches(f, base, e) <=>
           /\ base > 0 => At[e] >= base
           /\ f.since > 0 => At[e] >= (IF base > 0 THEN base ELSE f.since)
           /\ f.until > 0 => At[e] <= f.until
           /\ f.kinds # <<>> => KindOf[e] \in Range(f.kinds)
           /\ f.authors # <<>> => Author[e] \in Range(f.authors)
           /\ \A i \in DOMAIN f.tags : HasTag(e, f.tags[i][1], f.tags[i][2])
    BY DEF IdMatches
  <1>5. CASE f.ids # <<>>  BY <1>1, <1>2, <1>4, <1>5 DEF Asks, Matches, Asked
  <1>6. CASE f.ids = <<>>  BY <1>1, <1>2, <1>3, <1>6 DEF Asks, Matches, Asked
  <1> QED  BY <1>5, <1>6

-----------------------------------------------------------------------------
(* The answer of a filter *)

\* The answer is the intersection of the groups, and all of it where nothing is
\* limited.
LEMMA AnswerGives ==
  ASSUME NEW T, NEW found \in Seq(Seq(T)), Len(found) >= 1, NEW f, NEW base
  PROVE  /\ \A e \in AnswerOf(f, base, found) : \A j \in DOMAIN found : e \in Range(found[j])
         /\ f.limit = 0 => \A e : (\A j \in DOMAIN found : e \in Range(found[j]))
                                  => e \in AnswerOf(f, base, found)
  <1>1. 1 \in DOMAIN found /\ found[1] \in Seq(T)  OBVIOUS
  <1>2. \A i \in Common(found) : i \in DOMAIN found[1] /\ \A j \in DOMAIN found : found[1][i] \in Range(found[j])
    BY DEF Common
  <1>3. \A e \in AnswerOf(f, base, found) : \E i \in Common(found) : e = found[1][i]
    BY DEF AnswerOf
  <1>4. ASSUME f.limit = 0, NEW e, \A j \in DOMAIN found : e \in Range(found[j])
        PROVE  e \in AnswerOf(f, base, found)
    <2> DEFINE S == {i \in DOMAIN found[1] : found[1][i] = e}
    <2>1. e \in Range(found[1])  BY <1>1, <1>4
    <2>2. S # {}  BY <2>1 DEF Range
    <2>3. S \in SUBSET Nat  BY <1>1
    <2>4. PICK i \in S : \A k \in S : i <= k  BY <2>2, <2>3, LeastNatural
    <2>5. \A k \in 1..(i - 1) : found[1][k] # found[1][i]
      <3> SUFFICES ASSUME NEW k \in 1..(i - 1), found[1][k] = found[1][i]  PROVE FALSE
        OBVIOUS
      <3>1. i \in 1..Len(found[1]) /\ DOMAIN found[1] = 1..Len(found[1]) /\ Len(found[1]) \in Nat
        BY <1>1, <2>4
      <3>2. k \in 1..Len(found[1]) /\ k < i  BY <3>1
      <3>3. k \in S  BY <3>1, <3>2, <2>4
      <3>4. i <= k  BY <2>4, <3>3
      <3> HIDE DEF S
      <3>5. i \in Nat /\ k \in Nat  BY <3>1, <3>2
      <3> QED  BY <3>2, <3>4, <3>5
    <2>6. i \in Common(found)  BY <1>4, <2>4, <2>5 DEF Common
    <2>7. i \in {j \in Common(found) : (f.limit > 0 /\ base = 0) =>
                     Cardinality({k \in Common(found) : k < j}) < f.limit}
      BY <1>4, <2>6
    <2> QED  BY <2>4, <2>7 DEF AnswerOf
  <1> QED  BY <1>2, <1>3, <1>4

LEMMA NewestIs ==
  ASSUME EventAssumption, ReplayTyped, NEW events \in SUBSET log, events # {}
  PROVE  /\ \E e \in events : NewestAt(events) = At[e]
         /\ \A e \in events : At[e] <= NewestAt(events)
         /\ NewestAt(events) \in Moments
  <1> DEFINE T == {At[e] : e \in events}
  <1>1. PICK n \in Nat : \A e \in log : At[e] <= n  BY DEF ReplayTyped
  <1>2. \A e \in Event : At[e] \in Nat  BY DEF EventAssumption
  <1>3. events \in SUBSET Event  BY DEF ReplayTyped
  <1>4. T \in SUBSET (0..n) /\ T # {}  BY <1>1, <1>2, <1>3
  <1>5. PICK x \in T : \A y \in T : x >= y  BY <1>4, GreatestBelow
  <1>6. x \in T /\ \A e \in events : At[e] <= x
    <2> SUFFICES ASSUME NEW e \in events  PROVE At[e] <= x
      OBVIOUS
    <2>1. At[e] \in T /\ At[e] \in Nat  BY <1>2, <1>3
    <2>2. x \in Nat  BY <1>4
    <2> QED  BY <1>5, <2>1, <2>2
  <1>7. NewestAt(events) \in T /\ \A e \in events : At[e] <= NewestAt(events)
    BY <1>6 DEF NewestAt
  <1> QED  BY <1>3, <1>7 DEF Moments

-----------------------------------------------------------------------------
(* Reading the groups of a filter *)

LEMMA ReadingStarts ==
  ASSUME NEW G \in Seq(Seq(SUBSET Event)), G # <<>>, NEW B
  PROVE  Reading(G, G, << <<>> >>, B)
  <1>1. Len(G) \in Nat /\ Len(G) >= 1 /\ 1 \in DOMAIN G /\ DOMAIN G = 1..Len(G)  OBVIOUS
  <1>2. Len(<< <<>> >>) = 1 /\ << <<>> >>[1] = <<>> /\ Range(<<>>) = {}  BY DEF Range
  <1> QED  BY <1>1, <1>2 DEF Reading

LEMMA ReadsAQuery ==
  ASSUME NEW G, G \in Seq(Seq(SUBSET Event)), NEW qs \in Seq(Seq(SUBSET Event)),
         NEW found \in Seq(Seq(log)), NEW B \in SUBSET log,
         Reading(G, qs, found, B), qs[1] # <<>>,
         NEW s \in Seq(log), Range(s) = qs[1][1] \cap log
  PROVE  LET rest == [qs EXCEPT ![1] = Tail(qs[1])]
             more == [found EXCEPT ![Len(found)] = found[Len(found)] \o s]
         IN  /\ rest \in Seq(Seq(SUBSET Event)) /\ more \in Seq(Seq(log))
             /\ Reading(G, rest, more, B)
  <1> DEFINE n == Len(found)
             g == qs[1]
             rest == [qs EXCEPT ![1] = Tail(g)]
             last == found[n] \o s
             more == [found EXCEPT ![n] = last]
  <1>1. n \in DOMAIN G /\ n \in Nat /\ n >= 1 /\ Len(qs) \in Nat /\ Len(qs) >= 1 /\ n + Len(qs) = Len(G) + 1
    BY DEF Reading
  <1>2. g \in Seq(SUBSET Event) /\ Tail(g) \in Seq(SUBSET Event) /\ found[n] \in Seq(log) /\ last \in Seq(log)
    BY <1>1
  <1>3. rest \in Seq(Seq(SUBSET Event)) /\ Len(rest) = Len(qs) /\ rest[1] = Tail(g) /\ \A j \in 2..Len(qs) : rest[j] = qs[j]
    BY <1>1, <1>2
  <1>4. more \in Seq(Seq(log)) /\ Len(more) = n /\ more[n] = last /\ \A j \in 1..(n - 1) : more[j] = found[j]
    <2>1. n = Len(found) /\ \A j \in 1..n : found[j] \in Seq(log)  OBVIOUS
    <2>2. DOMAIN found = 1..n  BY <1>1
    <2>3. more \in [1..n -> Seq(log)]
      <3> HIDE DEF last, n
      <3> QED  BY <1>2, <2>1, <2>2
    <2>4. n \in 1..n /\ \A j \in 1..(n - 1) : j \in 1..n /\ j # n  BY <1>1
    <2> HIDE DEF last, n
    <2>5. more \in Seq(Seq(log)) /\ Len(more) = n  BY <1>1, <2>3
    <2>6. more[n] = last /\ \A j \in 1..(n - 1) : more[j] = found[j]  BY <2>2, <2>4
    <2> QED  BY <2>5, <2>6
  <1>5. Range(last) = Range(found[n]) \cup Range(s)
    <2>1. Len(last) = Len(found[n]) + Len(s) /\ Len(found[n]) \in Nat /\ Len(s) \in Nat  BY <1>2
    <2>2. \A j \in 1..Len(found[n]) : last[j] = found[n][j]  BY <1>2
    <2>3. \A j \in 1..Len(s) : last[Len(found[n]) + j] = s[j]  BY <1>2
    <2>4. \A j \in 1..Len(last) : j \in 1..Len(found[n]) \/ (j - Len(found[n]) \in 1..Len(s) /\ j = Len(found[n]) + (j - Len(found[n])))
      BY <2>1
    <2>5. DOMAIN last = 1..Len(last) /\ DOMAIN found[n] = 1..Len(found[n]) /\ DOMAIN s = 1..Len(s)  BY <1>2
    <2>6. \A j \in 1..Len(found[n]) : j \in 1..Len(last)  BY <2>1
    <2>7. \A j \in 1..Len(s) : Len(found[n]) + j \in 1..Len(last)  BY <2>1
    <2> HIDE DEF last, n
    <2>8. ASSUME NEW x \in Range(last)  PROVE x \in Range(found[n]) \cup Range(s)
      <3>1. PICK j \in 1..Len(last) : x = last[j]  BY <2>5 DEF Range
      <3>2. CASE j \in 1..Len(found[n])
        <4>1. x = found[n][j]  BY <2>2, <3>1, <3>2
        <4> QED  BY <2>5, <3>2, <4>1 DEF Range
      <3>3. CASE j - Len(found[n]) \in 1..Len(s) /\ j = Len(found[n]) + (j - Len(found[n]))
        <4>1. x = s[j - Len(found[n])]  BY <2>3, <3>1, <3>3
        <4> QED  BY <2>5, <3>3, <4>1 DEF Range
      <3> QED  BY <2>4, <3>1, <3>2, <3>3
    <2>9. ASSUME NEW x \in Range(found[n])  PROVE x \in Range(last)
      <3>1. PICK j \in 1..Len(found[n]) : x = found[n][j]  BY <2>5 DEF Range
      <3> QED  BY <2>2, <2>5, <2>6, <3>1 DEF Range
    <2>10. ASSUME NEW x \in Range(s)  PROVE x \in Range(last)
      <3>1. PICK j \in 1..Len(s) : x = s[j]  BY <2>5 DEF Range
      <3> QED  BY <2>3, <2>5, <2>7, <3>1 DEF Range
    <2> QED  BY <2>8, <2>9, <2>10
  <1>6. Any(g) = g[1] \cup Any(Tail(g))
    <2>1. Len(g) \in Nat /\ Len(g) >= 1 /\ DOMAIN g = 1..Len(g)  BY <1>2
    <2>2. DOMAIN Tail(g) = 1..(Len(g) - 1) /\ \A k \in 1..(Len(g) - 1) : Tail(g)[k] = g[k + 1]  BY <1>2, <2>1
    <2>3. \A k \in 1..Len(g) : k = 1 \/ (k - 1 \in 1..(Len(g) - 1) /\ (k - 1) + 1 = k)  BY <2>1
    <2>4. \A k \in 1..(Len(g) - 1) : k + 1 \in 1..Len(g)  BY <2>1
    <2>5. 1 \in 1..Len(g)  BY <2>1
    <2> HIDE DEF g
    <2>6. ASSUME NEW x \in Any(g)  PROVE x \in g[1] \cup Any(Tail(g))
      <3>1. PICK k \in 1..Len(g) : x \in g[k]  BY <2>1 DEF Any
      <3>2. CASE k = 1  BY <3>1, <3>2
      <3>3. CASE k # 1
        <4>1. k - 1 \in DOMAIN Tail(g) /\ x \in Tail(g)[k - 1]  BY <2>2, <2>3, <3>1, <3>3
        <4> QED  BY <4>1 DEF Any
      <3> QED  BY <3>2, <3>3
    <2>7. ASSUME NEW x \in Any(Tail(g))  PROVE x \in Any(g)
      <3>1. PICK k \in 1..(Len(g) - 1) : x \in Tail(g)[k]  BY <2>2 DEF Any
      <3>2. k + 1 \in DOMAIN g /\ x \in g[k + 1]  BY <2>1, <2>2, <2>4, <3>1
      <3> QED  BY <3>2 DEF Any
    <2>8. \A x \in g[1] : x \in Any(g)  BY <2>1, <2>5 DEF Any
    <2> QED  BY <2>6, <2>7, <2>8
  <1>7. /\ \A j \in 2..Len(qs) : qs[j] = G[n + j - 1]
        /\ Any(g) \subseteq Any(G[n])
        /\ \A j \in 1..n : Range(found[j]) \subseteq Any(G[j])
        /\ \A j \in 1..(n - 1) : B \cap Any(G[j]) \subseteq Range(found[j])
        /\ B \cap Any(G[n]) \subseteq Range(found[n]) \cup Any(g)
    BY DEF Reading
  <1> HIDE DEF n, g, rest, last, more
  <1>8. \A j \in 2..Len(rest) : rest[j] = G[n + j - 1]  BY <1>3, <1>7
  <1>9. Any(rest[1]) \subseteq Any(G[n])  BY <1>3, <1>6, <1>7
  <1>10. \A j \in 1..n : Range(more[j]) \subseteq Any(G[j])
    <2>1. Range(last) \subseteq Any(G[n])
      <3>1. n \in 1..n  BY <1>1
      <3>2. Range(s) \subseteq g[1]  BY DEF g
      <3> QED  BY <1>5, <1>6, <1>7, <3>1, <3>2
    <2>2. \A j \in 1..n : j = n \/ j \in 1..(n - 1)  BY <1>1
    <2> QED  BY <1>4, <1>7, <2>1, <2>2
  <1>11. \A j \in 1..(n - 1) : B \cap Any(G[j]) \subseteq Range(more[j])  BY <1>4, <1>7
  <1>12. B \cap Any(G[n]) \subseteq Range(more[n]) \cup Any(rest[1])
    <2>1. B \cap g[1] \subseteq Range(s)  BY DEF g
    <2> QED  BY <1>3, <1>4, <1>5, <1>6, <1>7, <2>1
  <1>13. Reading(G, rest, more, B)
    BY <1>1, <1>3, <1>4, <1>8, <1>9, <1>10, <1>11, <1>12 DEF Reading
  <1> QED  BY <1>3, <1>4, <1>13 DEF n, g, rest, last, more

LEMMA ReadsAGroup ==
  ASSUME NEW G, G \in Seq(Seq(SUBSET Event)), NEW qs \in Seq(Seq(SUBSET Event)),
         NEW found \in Seq(Seq(log)), NEW B, Reading(G, qs, found, B), Len(qs) > 1, qs[1] = <<>>
  PROVE  /\ Tail(qs) \in Seq(Seq(SUBSET Event)) /\ Append(found, <<>>) \in Seq(Seq(log))
         /\ Reading(G, Tail(qs), Append(found, <<>>), B)
  <1> DEFINE n == Len(found)
             more == Append(found, <<>>)
  <1>1. /\ n \in DOMAIN G /\ n \in Nat /\ n >= 1 /\ Len(qs) \in Nat /\ n + Len(qs) = Len(G) + 1
        /\ Len(G) \in Nat /\ DOMAIN G = 1..Len(G)
    <2>1. Len(G) \in Nat /\ DOMAIN G = 1..Len(G)  OBVIOUS
    <2>2. Len(found) \in Nat /\ Len(qs) \in Nat  OBVIOUS
    <2>3. n \in DOMAIN G /\ n + Len(qs) = Len(G) + 1  BY DEF Reading
    <2> QED  BY <2>1, <2>2, <2>3
  <1>2. /\ \A j \in 2..Len(qs) : qs[j] = G[n + j - 1]
        /\ \A j \in 1..n : Range(found[j]) \subseteq Any(G[j])
        /\ \A j \in 1..(n - 1) : B \cap Any(G[j]) \subseteq Range(found[j])
        /\ B \cap Any(G[n]) \subseteq Range(found[n]) \cup Any(qs[1])
    BY DEF Reading
  <1>3. Tail(qs) \in Seq(Seq(SUBSET Event)) /\ Len(Tail(qs)) = Len(qs) - 1 /\ \A j \in 1..(Len(qs) - 1) : Tail(qs)[j] = qs[j + 1]
    OBVIOUS
  <1>4. more \in Seq(Seq(log)) /\ Len(more) = n + 1 /\ more[n + 1] = <<>> /\ \A j \in 1..n : more[j] = found[j]
    OBVIOUS
  <1>5. Any(qs[1]) = {} /\ Range(<<>>) = {}  BY DEF Any, Range
  <1> HIDE DEF n, more
  <1>6. n + 1 \in DOMAIN G  BY <1>1, SMTT(30)
  <1>7. \A j \in 1..(Len(qs) - 1) : Tail(qs)[j] = G[n + j]
    <2> SUFFICES ASSUME NEW j \in 1..(Len(qs) - 1)  PROVE Tail(qs)[j] = G[n + j]
      OBVIOUS
    <2>1. j + 1 \in 2..Len(qs) /\ n + (j + 1) - 1 = n + j  BY <1>1
    <2> QED  BY <1>2, <1>3, <2>1
  <1>8. \A j \in 2..(Len(qs) - 1) : Tail(qs)[j] = G[(n + 1) + j - 1]
    <2> SUFFICES ASSUME NEW j \in 2..(Len(qs) - 1)  PROVE Tail(qs)[j] = G[(n + 1) + j - 1]
      OBVIOUS
    <2>1. j \in 1..(Len(qs) - 1) /\ (n + 1) + j - 1 = n + j  BY <1>1
    <2> QED  BY <1>7, <2>1
  <1>9. Tail(qs)[1] = G[n + 1]  BY <1>1, <1>7
  <1>10. \A j \in 1..(n + 1) : Range(more[j]) \subseteq Any(G[j])
    <2>1. \A j \in 1..(n + 1) : j = n + 1 \/ j \in 1..n  BY <1>1
    <2> QED  BY <1>2, <1>4, <1>5, <2>1
  <1>11. \A j \in 1..n : B \cap Any(G[j]) \subseteq Range(more[j])
    <2>1. \A j \in 1..n : j = n \/ j \in 1..(n - 1)  BY <1>1
    <2> QED  BY <1>2, <1>4, <1>5, <2>1
  <1>12. (n + 1) - 1 = n /\ (n + 1) + (Len(qs) - 1) = Len(G) + 1 /\ Len(qs) - 1 >= 1  BY <1>1, SMTT(30)
  <1>13. Reading(G, Tail(qs), more, B)
    BY <1>3, <1>4, <1>6, <1>8, <1>9, <1>10, <1>11, <1>12 DEF Reading
  <1> QED  BY <1>3, <1>4, <1>13 DEF more

-----------------------------------------------------------------------------
(* The steps *)

\* PollIsComplete, of values.
Complete(fs, at, before, from, times) ==
    /\ \A i \in DOMAIN fs : i < at =>
         \A e \in before :
            (fs[i].limit = 0 /\ Asked(fs[i], e) /\ At[e] > from /\ At[e] # fs[i].until) => times[e] > 0
    /\ \A e \in Event : times[e] > 0 =>
         \E i \in DOMAIN fs : Matches(fs[i], e) /\ (Len(fs) = 1 => At[e] >= fs[i].since)

LEMMA CompleteNow ==
  PollIsComplete <=> Complete(filters, poll.at, poll.before, cursor, returned)
  BY Zenon DEF PollIsComplete, Complete

LEMMA CompleteNext ==
  PollIsComplete' <=> Complete(filters', poll'.at, poll'.before, cursor', returned')
  BY Zenon DEF PollIsComplete, Complete, Asked, Matches, HasTag

LEMMA SeqGrows ==
  ASSUME NEW S, NEW T, S \subseteq T, NEW sq \in Seq(S)
  PROVE  sq \in Seq(T)
  OBVIOUS

LEMMA SeqIsOf ==
  ASSUME NEW S, NEW T, NEW sq \in Seq(S), \A j \in 1..Len(sq) : sq[j] \in T
  PROVE  sq \in Seq(T)
  OBVIOUS

LEMMA FiltersGive ==
  ASSUME EventAssumption, ReplayTyped
  PROVE  /\ Len(filters) \in Nat /\ DOMAIN filters = 1..Len(filters)
         /\ \A i \in DOMAIN filters : IsFilter(filters[i])
  BY SequenceHas DEF EventAssumption, ReplayTyped

\* The queries of a filter that is opened.
LEMMA OpenedGives ==
  ASSUME EventAssumption, ReplayTyped, NEW i \in Nat, NEW base, NEW B
  PROVE  /\ Opened(i, base) \in Seq(Seq(SUBSET Event)) /\ << <<>> >> \in Seq(Seq(log))
         /\ i \in DOMAIN filters => Reading(Groups(filters[i], base), Opened(i, base), << <<>> >>, B)
         /\ i \notin DOMAIN filters => Opened(i, base) = <<>>
  <1>1. CASE i \in DOMAIN filters
    <2>1. Opened(i, base) = Groups(filters[i], base)  BY <1>1 DEF Opened
    <2>2. IsFilter(filters[i])  BY <1>1, FiltersGive
    <2>3. Groups(filters[i], base) \in Seq(Seq(SUBSET Event)) /\ Groups(filters[i], base) # <<>>
      BY <2>2, GroupsGive
    <2>4. Reading(Groups(filters[i], base), Groups(filters[i], base), << <<>> >>, B)
      BY <2>3, ReadingStarts
    <2>5. << <<>> >> \in Seq(Seq(log))  OBVIOUS
    <2> QED  BY <1>1, <2>1, <2>3, <2>4, <2>5
  <1>2. CASE i \notin DOMAIN filters  BY <1>2 DEF Opened
  <1> QED  BY <1>1, <1>2

\* A poll starts by opening its first filter.
LEMMA PollStarts ==
  ASSUME EventAssumption, ReplayInv, StartPoll
  PROVE  ReplayInv'
  <1>1. /\ poll.at = 0 /\ UNCHANGED <<log, filters, cursor, returned>>
        /\ poll' = [at |-> 1, base |-> cursor, next |-> cursor, queries |-> Opened(1, cursor),
                    found |-> << <<>> >>, before |-> log]
    BY DEF StartPoll
  <1>2. ReplayTyped  BY DEF ReplayInv
  <1>3. ReplayTyped'  BY <1>1, <1>2 DEF ReplayTyped
  <1>4. /\ Opened(1, cursor) \in Seq(Seq(SUBSET Event)) /\ << <<>> >> \in Seq(Seq(log))
        /\ 1 \in DOMAIN filters => Reading(Groups(filters[1], cursor), Opened(1, cursor), << <<>> >>, log)
        /\ 1 \notin DOMAIN filters => Opened(1, cursor) = <<>>
    BY <1>2, OpenedGives
  <1>5. Len(filters) \in Nat /\ DOMAIN filters = 1..Len(filters)  BY <1>2, FiltersGive
  <1>6. cursor \in Moments /\ log \in SUBSET Event  BY <1>2 DEF ReplayTyped
  <1>7. /\ poll'.at = 1 /\ poll'.base = cursor /\ poll'.next = cursor
        /\ poll'.queries = Opened(1, cursor) /\ poll'.found = << <<>> >> /\ poll'.before = log
    BY <1>1
  <1>8. PollTyped'
    <2>1. << <<>> >> \in Seq(Seq(Event))  OBVIOUS
    <2>2. poll' \in PollRecords'
      BY <1>1, <1>4, <1>6, <2>1 DEF PollRecords, Moments
    <2> QED  BY <1>1, <1>4, <1>5, <1>7, <2>2 DEF PollTyped
  <1>9. OneFilter'
    <2>1. OneFilter  BY DEF ReplayInv
    <2> QED  BY <1>1, <1>7, <2>1 DEF OneFilter
  <1>10. PollIsComplete'
    <2>1. PollIsComplete  BY DEF ReplayInv
    <2>2. \A i \in DOMAIN filters : ~(i < 1)  BY <1>5
    <2>3. Complete(filters, 1, log, cursor, returned)  BY <2>1, <2>2 DEF PollIsComplete, Complete
    <2> QED  BY <1>1, <1>7, <2>3, CompleteNext
  <1>11. SingleFilterOnce'
    <2>1. SingleFilterOnce  BY DEF ReplayInv
    <2> QED  BY <1>1, <2>1 DEF SingleFilterOnce
  <1> QED  BY <1>3, <1>8, <1>9, <1>10, <1>11 DEF ReplayInv

\* A step that reads changes only what has been read.
LEMMA ReadingKeeps ==
  ASSUME EventAssumption, ReplayInv, poll.at \in DOMAIN filters,
         UNCHANGED <<log, filters, cursor, returned>>,
         NEW qs \in Seq(Seq(SUBSET Event)), NEW found \in Seq(Seq(log)),
         poll' = [poll EXCEPT !.queries = qs, !.found = found],
         Reading(Groups(filters[poll.at], poll.base), qs, found, poll.before)
  PROVE  ReplayInv'
  <1>1. ReplayTyped /\ PollTyped  BY DEF ReplayInv
  <1>2. ReplayTyped'  BY <1>1 DEF ReplayTyped
  <1>3. poll \in PollRecords  BY <1>1 DEF PollTyped
  <1>4. /\ poll'.at = poll.at /\ poll'.base = poll.base /\ poll'.next = poll.next
        /\ poll'.queries = qs /\ poll'.found = found /\ poll'.before = poll.before
    BY <1>3 DEF PollRecords
  <1>5. found \in Seq(Seq(Event))
    <2>1. log \in SUBSET Event  BY <1>1 DEF ReplayTyped
    <2>2. \A j \in 1..Len(found) : found[j] \in Seq(log)  OBVIOUS
    <2>3. \A j \in 1..Len(found) : found[j] \in Seq(Event)  BY <2>1, <2>2, SeqGrows
    <2> QED  BY <2>3, SeqIsOf
  <1>6. poll' \in PollRecords  BY <1>3, <1>5 DEF PollRecords
  <1>7. PollTyped'
    <2>1. PollRecords' = PollRecords  BY DEF PollRecords, Moments
    <2>2. Len(filters) \in Nat /\ DOMAIN filters = 1..Len(filters)  BY <1>1, FiltersGive
    <2>3. poll.at # 0  BY <2>2
    <2> QED  BY <1>1, <1>4, <1>6, <2>1, <2>3 DEF PollTyped
  <1>8. OneFilter'
    <2>1. OneFilter  BY DEF ReplayInv
    <2> QED  BY <1>4, <2>1 DEF OneFilter
  <1>9. PollIsComplete'
    <2>1. PollIsComplete  BY DEF ReplayInv
    <2> QED  BY <1>4, <2>1, CompleteNow, CompleteNext
  <1>10. SingleFilterOnce'
    <2>1. SingleFilterOnce  BY DEF ReplayInv
    <2> QED  BY <2>1 DEF SingleFilterOnce
  <1> QED  BY <1>2, <1>7, <1>8, <1>9, <1>10 DEF ReplayInv

LEMMA PollIsReading ==
  ASSUME EventAssumption, ReplayInv, poll.queries # <<>>
  PROVE  /\ poll.at \in DOMAIN filters /\ IsFilter(filters[poll.at])
         /\ poll \in PollRecords /\ poll.queries \in Seq(Seq(SUBSET Event)) /\ poll.found \in Seq(Seq(log))
         /\ poll.before \in SUBSET log /\ poll.base \in Moments /\ poll.base = cursor
         /\ Groups(filters[poll.at], poll.base) \in Seq(Seq(SUBSET Event))
         /\ Reading(Groups(filters[poll.at], poll.base), poll.queries, poll.found, poll.before)
         /\ log \in SUBSET Event /\ IsFiniteSet(log)
  <1>1. ReplayTyped /\ PollTyped  BY DEF ReplayInv
  <1>2. poll.at \in DOMAIN filters  BY <1>1 DEF PollTyped
  <1>3. IsFilter(filters[poll.at]) /\ DOMAIN filters = 1..Len(filters) /\ Len(filters) \in Nat
    BY <1>1, <1>2, FiltersGive
  <1>4. Groups(filters[poll.at], poll.base) \in Seq(Seq(SUBSET Event))  BY <1>3, GroupsGive
  <1>5. poll \in PollRecords  BY <1>1 DEF PollTyped
  <1>6. poll.queries \in Seq(Seq(SUBSET Event)) /\ poll.base \in Moments  BY <1>5 DEF PollRecords
  <1>7. poll.at # 0  BY <1>2, <1>3
  <1> QED  BY <1>1, <1>2, <1>3, <1>4, <1>5, <1>6, <1>7 DEF PollTyped, ReplayTyped

LEMMA QueryReads ==
  ASSUME EventAssumption, ReplayInv, RunQuery
  PROVE  ReplayInv'
  <1> DEFINE q == Head(Head(poll.queries))
             qs == [poll.queries EXCEPT ![1] = Tail(poll.queries[1])]
             found == [poll.found EXCEPT ![Len(poll.found)] = poll.found[Len(poll.found)] \o Stream(q)]
             G == Groups(filters[poll.at], poll.base)
  <1>1. /\ poll.queries # <<>> /\ Head(poll.queries) # <<>> /\ UNCHANGED <<log, filters, cursor, returned>>
        /\ poll' = [poll EXCEPT !.queries[1] = Tail(@), !.found[Len(poll.found)] = @ \o Stream(Head(Head(poll.queries)))]
    BY DEF RunQuery
  <1>2. /\ poll.at \in DOMAIN filters
        /\ poll \in PollRecords /\ poll.queries \in Seq(Seq(SUBSET Event)) /\ poll.found \in Seq(Seq(log))
        /\ poll.before \in SUBSET log /\ G \in Seq(Seq(SUBSET Event))
        /\ Reading(G, poll.queries, poll.found, poll.before) /\ log \in SUBSET Event /\ IsFiniteSet(log)
    BY <1>1, PollIsReading
  <1>3. /\ Head(poll.queries) = poll.queries[1] /\ poll.queries[1] \in Seq(SUBSET Event)
        /\ poll.queries[1] # <<>> /\ q = poll.queries[1][1] /\ q \in SUBSET Event
    BY <1>1, <1>2
  <1>4. Stream(q) \in Seq(log) /\ Range(Stream(q)) = q \cap log  BY <1>2, <1>3, StreamReads
  <1>5. poll' = [poll EXCEPT !.queries = qs, !.found = found]
    <2>1. poll' = [poll EXCEPT !.queries = [poll.queries EXCEPT ![1] = Tail(poll.queries[1])],
                               !.found = [poll.found EXCEPT ![Len(poll.found)] = poll.found[Len(poll.found)] \o Stream(Head(Head(poll.queries)))]]
      BY <1>1, <1>2 DEF PollRecords
    <2> QED  BY <2>1
  <1> HIDE DEF q, G
  <1>6. /\ qs \in Seq(Seq(SUBSET Event)) /\ found \in Seq(Seq(log))
        /\ Reading(G, qs, found, poll.before)
    BY <1>2, <1>3, <1>4, ReadsAQuery
  <1> HIDE DEF qs, found
  <1> QED  BY <1>1, <1>2, <1>5, <1>6, ReadingKeeps DEF G

LEMMA GroupEnds ==
  ASSUME EventAssumption, ReplayInv, NextGroup
  PROVE  ReplayInv'
  <1> DEFINE G == Groups(filters[poll.at], poll.base)
  <1>1. /\ Len(poll.queries) > 1 /\ Head(poll.queries) = <<>> /\ UNCHANGED <<log, filters, cursor, returned>>
        /\ poll' = [poll EXCEPT !.queries = Tail(@), !.found = Append(@, <<>>)]
    BY DEF NextGroup
  <1>2. poll.queries # <<>>
    <2>1. Len(<<>>) = 0  OBVIOUS
    <2> QED  BY <1>1, <2>1
  <1>3. /\ poll.at \in DOMAIN filters
        /\ poll \in PollRecords /\ poll.queries \in Seq(Seq(SUBSET Event)) /\ poll.found \in Seq(Seq(log))
        /\ G \in Seq(Seq(SUBSET Event))
        /\ Reading(G, poll.queries, poll.found, poll.before)
    BY <1>2, PollIsReading
  <1>4. poll' = [poll EXCEPT !.queries = Tail(poll.queries), !.found = Append(poll.found, <<>>)]
    BY <1>1, <1>3 DEF PollRecords
  <1>5. poll.queries[1] = <<>>  BY <1>1, <1>3
  <1> HIDE DEF G
  <1>6. /\ Tail(poll.queries) \in Seq(Seq(SUBSET Event)) /\ Append(poll.found, <<>>) \in Seq(Seq(log))
        /\ Reading(G, Tail(poll.queries), Append(poll.found, <<>>), poll.before)
    BY <1>1, <1>3, <1>5, ReadsAGroup
  <1> QED  BY <1>1, <1>3, <1>4, <1>6, ReadingKeeps DEF G

\* The answer of a filter whose queries have all been read.
LEMMA AnswerIs ==
  ASSUME EventAssumption, ReplayInv, poll.queries = << <<>> >>
  PROVE  LET f == filters[poll.at]
             events == AnswerOf(f, poll.base, poll.found)
         IN  /\ events \in SUBSET log
             /\ \A e \in events : Asks(f, poll.base, e)
             /\ f.limit = 0 => \A e \in poll.before : Asks(f, poll.base, e) => e \in events
  <1> DEFINE f == filters[poll.at]
             G == Groups(f, poll.base)
             found == poll.found
             n == Len(found)
             events == AnswerOf(f, poll.base, found)
  <1>1. /\ poll.at \in DOMAIN filters /\ IsFilter(f) /\ found \in Seq(Seq(log))
        /\ poll.before \in SUBSET log /\ log \in SUBSET Event /\ G \in Seq(Seq(SUBSET Event))
        /\ Reading(G, poll.queries, found, poll.before)
    BY PollIsReading
  <1>2. \A e \in Event : InAll(G, e) <=> Asks(f, poll.base, e)  BY <1>1, GroupsGive
  <1>3. Len(poll.queries) = 1 /\ poll.queries[1] = <<>> /\ Any(poll.queries[1]) = {}  BY DEF Any
  <1> HIDE DEF f, G
  <1>4. n \in Nat /\ n >= 1 /\ n = Len(G) /\ DOMAIN G = 1..n /\ DOMAIN found = 1..n
    <2>1. Len(G) \in Nat /\ DOMAIN G = 1..Len(G) /\ Len(found) \in Nat /\ DOMAIN found = 1..Len(found)
      BY <1>1
    <2>2. n \in DOMAIN G /\ n + 1 = Len(G) + 1  BY <1>1, <1>3 DEF Reading
    <2> QED  BY <2>1, <2>2
  <1>5. \A j \in 1..n : Range(found[j]) \subseteq Any(G[j])  BY <1>1 DEF Reading
  <1>6. \A j \in 1..n : poll.before \cap Any(G[j]) \subseteq Range(found[j])
    <2>1. \A j \in 1..(n - 1) : poll.before \cap Any(G[j]) \subseteq Range(found[j])  BY <1>1 DEF Reading
    <2>2. poll.before \cap Any(G[n]) \subseteq Range(found[n]) \cup Any(poll.queries[1])  BY <1>1 DEF Reading
    <2> HIDE DEF n
    <2>3. \A j \in 1..n : j = n \/ j \in 1..(n - 1)  BY <1>4
    <2> QED  BY <1>3, <2>1, <2>2, <2>3
  <1>7. /\ \A e \in events : \A j \in DOMAIN found : e \in Range(found[j])
        /\ f.limit = 0 => \A e : (\A j \in DOMAIN found : e \in Range(found[j])) => e \in events
    BY <1>1, <1>4, AnswerGives
  <1>8. \A j \in DOMAIN found : Range(found[j]) \subseteq log
    <2> SUFFICES ASSUME NEW j \in DOMAIN found, NEW e \in Range(found[j])  PROVE e \in log
      OBVIOUS
    <2>1. found[j] \in Seq(log)  BY <1>1
    <2>2. PICK k \in DOMAIN found[j] : found[j][k] = e  BY DEF Range
    <2> QED  BY <2>1, <2>2
  <1> HIDE DEF events, n, found
  <1>9. events \in SUBSET log
    <2> SUFFICES ASSUME NEW e \in events  PROVE e \in log
      OBVIOUS
    <2>1. 1 \in 1..n  BY <1>4
    <2> QED  BY <1>4, <1>7, <1>8, <2>1
  <1>10. \A e \in events : Asks(f, poll.base, e)
    <2> SUFFICES ASSUME NEW e \in events  PROVE Asks(f, poll.base, e)
      OBVIOUS
    <2>1. e \in Event  BY <1>1, <1>9
    <2>2. InAll(G, e)  BY <1>4, <1>5, <1>7 DEF InAll
    <2> QED  BY <1>2, <2>1, <2>2
  <1>11. f.limit = 0 => \A e \in poll.before : Asks(f, poll.base, e) => e \in events
    <2> SUFFICES ASSUME f.limit = 0, NEW e \in poll.before, Asks(f, poll.base, e)  PROVE e \in events
      OBVIOUS
    <2>1. e \in Event  BY <1>1
    <2>2. InAll(G, e)  BY <1>2, <2>1
    <2> QED  BY <1>4, <1>6, <1>7, <2>2 DEF InAll
  <1> QED  BY <1>9, <1>10, <1>11 DEF events, found, f

LEMMA FilterIsAnswered ==
  ASSUME EventAssumption, ReplayInv, AnswerFilter
  PROVE  ReplayInv'
  <1> DEFINE f == filters[poll.at]
             events == AnswerOf(f, poll.base, poll.found)
  <1>1. /\ poll.at \in DOMAIN filters /\ poll.queries = << <<>> >> /\ UNCHANGED <<log, filters, cursor>>
        /\ returned' = [e \in Event |-> IF e \in events /\ returned[e] < MaxReturns
                                        THEN returned[e] + 1 ELSE returned[e]]
        /\ poll' = Advanced(events)
    BY DEF AnswerFilter
  <1>2. /\ ReplayTyped /\ PollTyped /\ OneFilter /\ PollIsComplete /\ SingleFilterOnce
    BY DEF ReplayInv
  <1>3. /\ events \in SUBSET log
        /\ \A e \in events : Asks(f, poll.base, e)
        /\ f.limit = 0 => \A e \in poll.before : Asks(f, poll.base, e) => e \in events
    BY <1>1, AnswerIs
  <1>4. /\ IsFilter(f) /\ poll \in PollRecords /\ poll.before \in SUBSET log /\ poll.base = cursor /\ log \in SUBSET Event
    <2>1. poll.queries # <<>>  BY <1>1
    <2> QED  BY <2>1, PollIsReading
  <1>5. Len(filters) \in Nat /\ DOMAIN filters = 1..Len(filters)  BY <1>2, FiltersGive
  <1>6. cursor \in Moments /\ returned \in [Event -> 0..MaxReturns] /\ poll.next \in Moments /\ poll.at \in Nat
    BY <1>2, <1>4 DEF ReplayTyped, PollRecords
  <1>7. \A e \in Event : At[e] \in Nat /\ At[e] > 0  BY DEF EventAssumption
  <1>8. \A t \in Moments : t \in Nat  BY <1>7 DEF Moments
  <1> HIDE DEF events
  <1>9. \A e \in Event :
           /\ returned'[e] \in 0..MaxReturns /\ returned'[e] >= returned[e]
           /\ e \in events => returned'[e] > 0
           /\ e \in events /\ returned[e] = 0 => returned'[e] = 1
           /\ e \notin events => returned'[e] = returned[e]
    BY <1>1, <1>6 DEF MaxReturns
  <1>10. returned' \in [Event -> 0..MaxReturns]  BY <1>1, <1>9
  <1>11. ReplayTyped'  BY <1>1, <1>2, <1>10 DEF ReplayTyped
  <1> DEFINE next == IF events = {} THEN poll.next ELSE NewestAt(events)
             opened == Opened(poll.at + 1, poll.base)
  <1>12. /\ poll' = [poll EXCEPT !.at = poll.at + 1, !.found = << <<>> >>, !.next = next, !.queries = opened]
         /\ poll'.at = poll.at + 1 /\ poll'.base = poll.base /\ poll'.next = next
         /\ poll'.queries = opened /\ poll'.found = << <<>> >> /\ poll'.before = poll.before
    BY <1>1, <1>4 DEF Advanced, PollRecords
  <1>13. events # {} => /\ \E e \in events : NewestAt(events) = At[e]
                        /\ \A e \in events : At[e] <= NewestAt(events)
                        /\ NewestAt(events) \in Moments
    BY <1>2, <1>3, NewestIs
  <1>14. /\ opened \in Seq(Seq(SUBSET Event)) /\ << <<>> >> \in Seq(Seq(log))
         /\ poll.at + 1 \in DOMAIN filters =>
              Reading(Groups(filters[poll.at + 1], poll.base), opened, << <<>> >>, poll.before)
         /\ poll.at + 1 \notin DOMAIN filters => opened = <<>>
    <2> DEFINE i == poll.at + 1
    <2>1. i \in Nat  BY <1>6
    <2> HIDE DEF i
    <2>2. /\ Opened(i, poll.base) \in Seq(Seq(SUBSET Event)) /\ << <<>> >> \in Seq(Seq(log))
          /\ i \in DOMAIN filters =>
               Reading(Groups(filters[i], poll.base), Opened(i, poll.base), << <<>> >>, poll.before)
          /\ i \notin DOMAIN filters => Opened(i, poll.base) = <<>>
      BY <1>2, <2>1, OpenedGives
    <2> QED  BY <2>2 DEF i
  <1> HIDE DEF opened, next
  <1>15. next \in Moments  BY <1>6, <1>13 DEF next
  <1>16. PollTyped'
    <2>1. << <<>> >> \in Seq(Seq(Event))  OBVIOUS
    <2>2. poll' \in PollRecords
      <3>1. poll' = [at |-> poll.at + 1, base |-> poll.base, next |-> next, queries |-> opened,
                     found |-> << <<>> >>, before |-> poll.before]
        BY <1>4, <1>12 DEF PollRecords
      <3>2. poll.at + 1 \in Nat /\ poll.base \in Moments /\ poll.before \in SUBSET Event
        BY <1>4, <1>6
      <3> QED  BY <1>14, <1>15, <2>1, <3>1, <3>2 DEF PollRecords
    <2>3. PollRecords' = PollRecords  BY DEF PollRecords, Moments
    <2>4. poll.at + 1 \in 0..(Len(filters) + 1) /\ poll.at + 1 # 0 /\ poll.at + 1 # 1  BY <1>1, <1>5
    <2> QED  BY <1>1, <1>4, <1>12, <1>14, <2>2, <2>3, <2>4 DEF PollTyped
  <1>17. \A e \in events :
            /\ e \in Event /\ Matches(f, e) /\ At[e] >= (IF poll.base > 0 THEN poll.base ELSE f.since)
            /\ f.ids = <<>> => At[e] > poll.base
    <2> SUFFICES ASSUME NEW e \in events
                 PROVE  /\ e \in Event /\ Matches(f, e) /\ At[e] >= (IF poll.base > 0 THEN poll.base ELSE f.since)
                        /\ f.ids = <<>> => At[e] > poll.base
      OBVIOUS
    <2>1. e \in Event /\ poll.base \in Moments  BY <1>3, <1>4, <1>6
    <2> HIDE DEF f
    <2> QED  BY <1>3, <1>4, <2>1, AsksMatch
  <1>18. ASSUME Len(filters) = 1
         PROVE  /\ poll.at = 1 /\ f = filters[1] /\ poll.next = cursor /\ f.since \in Nat
                /\ cursor = 0 \/ cursor >= f.since
                /\ \A e \in Event : returned[e] > 0 => At[e] <= cursor
                /\ \A e \in events : At[e] >= f.since /\ At[e] >= cursor
    <2>1. poll.at = 1  BY <1>1, <1>5, <1>18
    <2>2. poll.next = cursor  BY <1>2, <2>1 DEF PollTyped
    <2>3. f = filters[1] /\ f.since \in Nat  BY <1>4, <2>1 DEF IsFilter
    <2>4. cursor = 0 \/ cursor >= f.since  BY <1>2, <1>18, <2>3 DEF OneFilter
    <2>5. \A e \in Event : returned[e] > 0 => At[e] <= cursor  BY <1>2, <1>18, <2>1 DEF OneFilter
    <2>6. \A e \in events : At[e] >= f.since /\ At[e] >= cursor
      BY <1>4, <1>6, <1>7, <1>8, <1>17, <2>3, <2>4
    <2> QED  BY <2>1, <2>2, <2>3, <2>4, <2>5, <2>6
  <1>19. OneFilter'
    <2> SUFFICES ASSUME Len(filters) = 1
                 PROVE  /\ cursor = 0 \/ cursor >= filters[1].since
                        /\ next = 0 \/ next >= filters[1].since
                        /\ \A e \in Event : returned'[e] > 0 => At[e] <= next
      BY <1>1, <1>12, <1>18 DEF OneFilter
    <2>1. next = 0 \/ next >= filters[1].since  BY <1>13, <1>18 DEF next
    <2>2. ASSUME NEW e \in Event, returned'[e] > 0  PROVE At[e] <= next
      <3>1. CASE e \in events  BY <1>13, <3>1 DEF next
      <3>2. CASE e \notin events
        <4>1. At[e] <= cursor  BY <1>9, <1>18, <2>2, <3>2
        <4>2. cursor <= next  BY <1>6, <1>7, <1>8, <1>13, <1>15, <1>17, <1>18 DEF next
        <4> QED  BY <1>6, <1>7, <1>8, <1>15, <4>1, <4>2
      <3> QED  BY <3>1, <3>2
    <2> QED  BY <1>18, <2>1, <2>2
  <1>20. PollIsComplete'
    <2>1. ASSUME NEW i \in DOMAIN filters, i < poll.at + 1, NEW e \in poll.before,
                 filters[i].limit = 0, Asked(filters[i], e), At[e] > cursor, At[e] # filters[i].until
          PROVE  returned'[e] > 0
      <3>1. e \in Event  BY <1>4
      <3>2. CASE i < poll.at
        <4>1. returned[e] > 0  BY <1>2, <2>1, <3>2 DEF PollIsComplete
        <4> QED  BY <1>6, <1>9, <3>1, <4>1
      <3>3. CASE i = poll.at
        <4>1. Asks(f, poll.base, e)
          <5>1. Asked(f, e) /\ At[e] > poll.base /\ At[e] # f.until  BY <1>4, <2>1, <3>3
          <5>2. poll.base \in Moments  BY <1>4, <1>6
          <5> HIDE DEF f
          <5> QED  BY <1>4, <3>1, <5>1, <5>2, AsksMatch
        <4> QED  BY <1>3, <1>9, <2>1, <3>1, <3>3, <4>1
      <3> QED  BY <1>5, <1>6, <2>1, <3>2, <3>3
    <2>2. ASSUME NEW e \in Event, returned'[e] > 0
          PROVE  \E i \in DOMAIN filters :
                    Matches(filters[i], e) /\ (Len(filters) = 1 => At[e] >= filters[i].since)
      <3>1. CASE e \in events
        <4>1. Matches(filters[poll.at], e)  BY <1>17, <3>1
        <4>2. Len(filters) = 1 => At[e] >= filters[poll.at].since  BY <1>18, <3>1
        <4> QED  BY <1>1, <4>1, <4>2
      <3>2. CASE e \notin events
        <4>1. returned[e] > 0  BY <1>9, <2>2, <3>2
        <4> QED  BY <1>2, <4>1 DEF PollIsComplete
      <3> QED  BY <3>1, <3>2
    <2>3. \A i \in DOMAIN filters : i < poll'.at =>
             \A e \in poll'.before :
                (filters[i].limit = 0 /\ Asked(filters[i], e) /\ At[e] > cursor /\ At[e] # filters[i].until)
                => returned'[e] > 0
      BY <1>12, <2>1
    <2>4. \A e \in Event : returned'[e] > 0 =>
             \E i \in DOMAIN filters :
                Matches(filters[i], e) /\ (Len(filters) = 1 => At[e] >= filters[i].since)
      BY <2>2
    <2>5. UNCHANGED <<filters, cursor>>  BY <1>1
    <2>6. Complete(filters, poll'.at, poll'.before, cursor, returned')  BY <2>3, <2>4 DEF Complete
    <2> HIDE DEF f
    <2> QED  BY <2>5, <2>6, CompleteNext
  <1>21. SingleFilterOnce'
    <2> SUFFICES ASSUME Len(filters) = 1, filters[1].ids = <<>>, NEW e \in Event
                 PROVE  returned'[e] <= 1
      BY <1>1 DEF SingleFilterOnce
    <2>1. returned[e] <= 1  BY <1>2 DEF SingleFilterOnce
    <2>2. CASE e \notin events  BY <1>9, <2>1, <2>2
    <2>3. CASE e \in events
      <3>1. At[e] > cursor  BY <1>4, <1>17, <1>18, <2>3
      <3>2. ~(returned[e] > 0)  BY <1>6, <1>7, <1>8, <1>18, <3>1
      <3>3. returned[e] = 0  BY <1>6, <3>2 DEF MaxReturns
      <3> QED  BY <1>9, <2>3, <3>3
    <2> QED  BY <2>2, <2>3
  <1> QED  BY <1>11, <1>16, <1>19, <1>20, <1>21 DEF ReplayInv

LEMMA PollEnds ==
  ASSUME EventAssumption, ReplayInv, FinishPoll
  PROVE  ReplayInv'
  <1>1. /\ poll.at = Len(filters) + 1 /\ UNCHANGED <<log, filters, returned>> /\ poll' = NoPoll
        /\ cursor' = IF poll.next > cursor THEN poll.next ELSE cursor
    BY DEF FinishPoll
  <1>2. ReplayTyped /\ PollTyped /\ OneFilter /\ PollIsComplete /\ SingleFilterOnce  BY DEF ReplayInv
  <1>3. Len(filters) \in Nat /\ DOMAIN filters = 1..Len(filters)  BY <1>2, FiltersGive
  <1>4. cursor \in Moments /\ poll.next \in Moments /\ poll \in PollRecords
    BY <1>2 DEF ReplayTyped, PollTyped, PollRecords
  <1>5. cursor' \in Moments  BY <1>1, <1>4
  <1>6. \A t \in Moments : t \in Nat  BY DEF Moments, EventAssumption
  <1>7. ReplayTyped'  BY <1>1, <1>2, <1>5 DEF ReplayTyped, Moments
  <1>8. /\ poll'.at = 0 /\ poll'.next = 0 /\ poll'.queries = <<>> /\ poll'.found = <<>> /\ poll'.before = {}
        /\ poll' \in PollRecords
    <2>1. 0 \in Moments  BY DEF Moments
    <2> QED  BY <1>1, <2>1 DEF NoPoll, PollRecords
  <1>9. PollTyped'
    <2>1. PollRecords' = PollRecords  BY DEF PollRecords, Moments
    <2>2. 0 \notin DOMAIN filters /\ 0 \in 0..(Len(filters) + 1)  BY <1>3
    <2>3. <<>> \in Seq(Seq(log))  OBVIOUS
    <2>4. NoPoll' = NoPoll  BY DEF NoPoll
    <2> QED  BY <1>1, <1>8, <2>1, <2>2, <2>3, <2>4 DEF PollTyped
  <1>10. OneFilter'
    <2> SUFFICES ASSUME Len(filters) = 1
                 PROVE  /\ cursor' = 0 \/ cursor' >= filters[1].since
                        /\ \A e \in Event : returned[e] > 0 => At[e] <= cursor'
      BY <1>1, <1>8 DEF OneFilter
    <2>1. poll.at = 2  BY <1>1
    <2>2. /\ cursor = 0 \/ cursor >= filters[1].since
          /\ poll.next = 0 \/ poll.next >= filters[1].since
          /\ \A e \in Event : returned[e] > 0 => At[e] <= poll.next
      BY <1>2, <2>1 DEF OneFilter
    <2>3. cursor \in Nat /\ poll.next \in Nat /\ \A e \in Event : At[e] \in Nat
      BY <1>4, <1>6 DEF EventAssumption
    <2> QED  BY <1>1, <2>2, <2>3
  <1>11. PollIsComplete'
    <2>1. \A i \in DOMAIN filters : ~(i < 0)  BY <1>3
    <2>2. Complete(filters, 0, {}, cursor', returned)  BY <1>2, <2>1 DEF PollIsComplete, Complete
    <2> QED  BY <1>1, <1>8, <2>2, CompleteNext
  <1>12. SingleFilterOnce'  BY <1>1, <1>2 DEF SingleFilterOnce
  <1> QED  BY <1>7, <1>9, <1>10, <1>11, <1>12 DEF ReplayInv

LEMMA LogGrows ==
  ASSUME EventAssumption, ReplayInv, NEW e \in Event, EventArrives(e)
  PROVE  ReplayInv'
  <1>1. log' = log \cup {e} /\ UNCHANGED <<filters, cursor, poll, returned>>  BY DEF EventArrives
  <1>2. ReplayTyped /\ PollTyped /\ OneFilter /\ PollIsComplete /\ SingleFilterOnce  BY DEF ReplayInv
  <1>3. ReplayTyped'
    <2>1. IsFiniteSet(log) /\ log \in SUBSET Event  BY <1>2 DEF ReplayTyped
    <2>2. IsFiniteSet(log')  BY <1>1, <2>1, FS_AddElement
    <2>3. PICK n \in Nat : \A d \in log : At[d] <= n  BY <1>2 DEF ReplayTyped
    <2>4. \A d \in Event : At[d] \in Nat  BY DEF EventAssumption
    <2>5. \E m \in Nat : \A d \in log' : At[d] <= m
      <3>1. CASE At[e] <= n  BY <1>1, <2>3, <3>1
      <3>2. CASE ~(At[e] <= n)
        <4>1. At[e] \in Nat  BY <2>4
        <4>2. \A d \in log' : At[d] <= At[e]  BY <1>1, <2>1, <2>3, <2>4, <3>2
        <4> QED  BY <4>1, <4>2
      <3> QED  BY <3>1, <3>2
    <2> QED  BY <1>1, <1>2, <2>1, <2>2, <2>5 DEF ReplayTyped, Moments
  <1>4. PollTyped'
    <2>1. PollRecords' = PollRecords  BY DEF PollRecords, Moments
    <2>2. poll.found \in Seq(Seq(log'))
      <3>1. poll.found \in Seq(Seq(log))  BY <1>2 DEF PollTyped
      <3>2. \A j \in 1..Len(poll.found) : poll.found[j] \in Seq(log')
        <4> SUFFICES ASSUME NEW j \in 1..Len(poll.found)  PROVE poll.found[j] \in Seq(log')
          OBVIOUS
        <4>1. poll.found[j] \in Seq(log)  BY <3>1
        <4>2. log \subseteq log'  BY <1>1
        <4> QED  BY <4>1, <4>2, SeqGrows
      <3> QED  BY <3>1, <3>2, SeqIsOf
    <2>3. NoPoll' = NoPoll  BY DEF NoPoll
    <2> QED  BY <1>1, <1>2, <2>1, <2>2, <2>3 DEF PollTyped
  <1>5. OneFilter'  BY <1>1, <1>2 DEF OneFilter
  <1>6. PollIsComplete'  BY <1>1, <1>2, CompleteNow, CompleteNext
  <1>7. SingleFilterOnce'  BY <1>1, <1>2 DEF SingleFilterOnce
  <1> QED  BY <1>3, <1>4, <1>5, <1>6, <1>7 DEF ReplayInv

LEMMA ReplayStarts ==
  ASSUME EventAssumption, ReplayInit
  PROVE  ReplayInv
  <1>1. log = {} /\ filters \in Subscriptions /\ cursor = 0 /\ poll = NoPoll /\ returned = [e \in Event |-> 0]
    BY DEF ReplayInit
  <1>2. ReplayTyped
    <2>1. IsFiniteSet({})  BY FS_EmptySet
    <2>2. \E n \in Nat : \A e \in log : At[e] <= n
      <3>1. 0 \in Nat  OBVIOUS
      <3> QED  BY <1>1, <3>1
    <2> QED  BY <1>1, <2>1, <2>2 DEF ReplayTyped, Moments, MaxReturns
  <1>3. Len(filters) \in Nat /\ DOMAIN filters = 1..Len(filters)  BY <1>2, FiltersGive
  <1>4. /\ poll.at = 0 /\ poll.next = 0 /\ poll.queries = <<>> /\ poll.found = <<>> /\ poll.before = {}
        /\ poll \in PollRecords
    <2>1. 0 \in Moments  BY DEF Moments
    <2> QED  BY <1>1, <2>1 DEF NoPoll, PollRecords
  <1>5. PollTyped
    <2>1. 0 \notin DOMAIN filters /\ 0 \in 0..(Len(filters) + 1)  BY <1>3
    <2>2. <<>> \in Seq(Seq(log))  OBVIOUS
    <2> QED  BY <1>1, <1>4, <2>1, <2>2 DEF PollTyped
  <1>6. OneFilter  BY <1>1, <1>4 DEF OneFilter
  <1>7. PollIsComplete
    <2>1. \A i \in DOMAIN filters : ~(i < 0)  BY <1>3
    <2> QED  BY <1>1, <1>4, <2>1 DEF PollIsComplete
  <1>8. SingleFilterOnce  BY <1>1 DEF SingleFilterOnce
  <1> QED  BY <1>2, <1>5, <1>6, <1>7, <1>8 DEF ReplayInv

LEMMA ReplaySteps ==
  ASSUME EventAssumption, ReplayInv, [ReplayNext]_replayVars
  PROVE  ReplayInv'
  <1>1. CASE StartPoll  BY <1>1, PollStarts
  <1>2. CASE RunQuery  BY <1>2, QueryReads
  <1>3. CASE NextGroup  BY <1>3, GroupEnds
  <1>4. CASE AnswerFilter  BY <1>4, FilterIsAnswered
  <1>5. CASE FinishPoll  BY <1>5, PollEnds
  <1>6. CASE \E e \in Event : EventArrives(e)  BY <1>6, LogGrows
  <1>7. CASE UNCHANGED replayVars
    <2>1. UNCHANGED <<log, filters, cursor, poll, returned>>  BY <1>7 DEF replayVars
    <2>2. ReplayTyped /\ PollTyped /\ OneFilter /\ PollIsComplete /\ SingleFilterOnce  BY DEF ReplayInv
    <2>3. ReplayTyped'  BY <2>1, <2>2 DEF ReplayTyped, Moments
    <2>4. PollTyped'
      <3>1. PollRecords' = PollRecords /\ NoPoll' = NoPoll  BY DEF PollRecords, Moments, NoPoll
      <3> QED  BY <2>1, <2>2, <3>1 DEF PollTyped
    <2>5. OneFilter'  BY <2>1, <2>2 DEF OneFilter
    <2>6. PollIsComplete'  BY <2>1, <2>2, CompleteNow, CompleteNext
    <2>7. SingleFilterOnce'  BY <2>1, <2>2 DEF SingleFilterOnce
    <2> QED  BY <2>3, <2>4, <2>5, <2>6, <2>7 DEF ReplayInv
  <1> QED  BY <1>1, <1>2, <1>3, <1>4, <1>5, <1>6, <1>7 DEF ReplayNext

LEMMA ReplayTypes ==
  ASSUME EventAssumption, ReplayInv
  PROVE  ReplayTypeOK
  <1>1. ReplayTyped /\ PollTyped  BY DEF ReplayInv
  <1> QED  BY <1>1 DEF ReplayTyped, PollTyped, ReplayTypeOK, Moments

(* Whatever subscriptions, events and polls: a poll returns every event    *)
(* that a filter without a limit asks for and was there when it started,   *)
(* none that no filter asks for, and a single filter that is not by ids is *)
(* sent nothing twice (handleSubscription, constructQueries, executeQueries*)
(* and findCommonIds of hyperpipe-relay-event-processor.mjs).              *)
THEOREM AnswersExact ==
  ASSUME EventAssumption
  PROVE  ReplaySpec => []AnswersAreExact
  <1>1. ReplayInit => ReplayInv  BY ReplayStarts
  <1>2. ReplayInv /\ [ReplayNext]_replayVars => ReplayInv'  BY ReplaySteps
  <1>3. ReplayInv => AnswersAreExact  BY DEF ReplayInv, AnswersAreExact
  <1> QED  BY <1>1, <1>2, <1>3, PTL DEF ReplaySpec

-----------------------------------------------------------------------------
(* Blind peering                                                           *)

Stages == {Free, "loading", "clearing", "closing", "destroying", "saving"}
Writer == Handler \cup {"timer"}
Writing(H) == [at : {"write"}, held : H]
MetadataFiles == [read : BOOLEAN, held : SUBSET Key]
Backoffs == [attempt : 0..(MaxAttempts + 1), timer : BOOLEAN, inflight : BOOLEAN, idled : BOOLEAN]
ChainRecords == [at : {"idle", "adding", "waiting"}, attempt : Attempt]
Identities == [known : BOOLEAN, announced : BOOLEAN, monitor : BOOLEAN]
HookRuns == {"idle", "reading", "ensuring", "refreshing"}
Hooks == [timer : BOOLEAN, run : HookRuns, pending : BOOLEAN, news : BOOLEAN, dropped : BOOLEAN]

\* A publication waits only for an attempt that is left.
ChainsOf == {w \in ChainRecords : w.at = "waiting" => w.attempt < MaxAttempts}

\* A write: none, one whose payload is not made, or one of the entries in held.
IsWrite(w) == w = NoSave \/ w = [at |-> "mkdir"] \/ w \in Writing(SUBSET Key)

CoreTyped ==
    /\ enabled \in BOOLEAN /\ started \in BOOLEAN /\ loaded \in BOOLEAN /\ dirty \in BOOLEAN
    /\ saveTimer \in BOOLEAN /\ missed \in BOOLEAN /\ crossed \in BOOLEAN /\ reread \in BOOLEAN
    /\ outdated \in BOOLEAN /\ engine \in {"none", "live", "dead"}
    /\ handler \in [Handler -> Stages] /\ clearing \in [Handler -> SUBSET Key]
    /\ mirrorTargets \in SUBSET Key /\ targets \in SUBSET Key /\ kept \in SUBSET Key
    /\ DOMAIN saves = Writer /\ saves = [s \in Writer |-> saves[s]] /\ \A s \in Writer : IsWrite(saves[s])
    /\ metadata \in MetadataFiles /\ crashed \in 0..MaxRestarts

Busy(k) == handler[k] # Free

\* What the handler that is at work by itself does.
Wanted ==
    ~missed =>
        /\ \A j, k \in Handler : Busy(j) /\ Busy(k) => j = k
        /\ NothingUnderWay => started = enabled
        /\ \A k \in Handler : handler[k] = "loading" => enabled
        /\ \A k \in Handler : handler[k] = "clearing" => ~enabled
        /\ \A k \in Handler : handler[k] \in {"closing", "destroying", "saving"} => ~enabled /\ ~started

StartsOrRuns == started \/ \E k \in Handler : handler[k] = "loading"

OnEngine == ~crossed /\ StartsOrRuns => engine = "live" /\ \A k \in Handler : ~Stopping(k)

Unloaded ==
    ~loaded => /\ ~started /\ ~dirty /\ mirrorTargets = {} /\ targets = {}
               /\ \A k \in Handler : handler[k] \in {Free, "loading"}

Stale == {t \in Key : \E k \in Handler : t \in clearing[k]}

Cleared ==
    /\ mirrorTargets \cup targets \subseteq kept \cup Stale
    /\ \A k \in Handler : clearing[k] # {} => handler[k] = "clearing" /\ "pfp-drive" \in kept
    /\ \A k \in Handler : handler[k] = "clearing" => "pfp-drive" \in kept
    /\ targets \subseteq mirrorTargets \cup {"pfp-drive"}

FileKept ==
    /\ ~metadata.read => metadata.held = {}
    /\ loaded /\ ~outdated /\ ~dirty => targets = metadata.held
    /\ dirty /\ ~outdated => saveTimer \/ \E s \in Handler \cup {"timer"} : saves[s] # NoSave
    /\ \A k \in Handler : saves[k] # NoSave => handler[k] = "saving"

Core == CoreTyped /\ Wanted /\ OnEngine /\ Unloaded /\ Cleared /\ FileKept /\ TablesAgree

Publishing ==
    /\ chains \in [Chain -> ChainsOf] /\ retryHandle \in Chain \cup {"none"} /\ owed \in BOOLEAN
    /\ CoreIsPublished

BlindInv ==
    /\ Core /\ Publishing
    /\ backoff \in Backoffs /\ RefreshIsRetried
    /\ identity \in Identities /\ KeyIsSought
    /\ hook \in Hooks /\ UpdateIsMirrored

-----------------------------------------------------------------------------
(* What a step leaves alone *)

Handles(k) ==
    StartAgain(k) \/ Stop(k) \/ Configure(k) \/ Load(k) \/ Clear(k) \/ Closed(k) \/ Destroyed(k)
SaveRuns(s) == SaveTakes(s) \/ SaveEnds(s) \/ SaveFails(s)
Refreshes == Refresh \/ BackoffFires \/ \E ok \in BOOLEAN : RefreshEnds(ok)
Keys == KeyAppears \/ MonitorPolls \/ AskKey
HookMoves == Update \/ HookFires \/ HookReads \/ HookEnds

LEMMA StepIs ==
  ASSUME [BlindNext]_blindVars
  PROVE  \/ \E k \in Handler : Handles(k)
         \/ SaveFires \/ \E s \in DOMAIN saves : SaveRuns(s)
         \/ BlindCrash \/ Seed \/ RemoveRelay \/ Refreshes \/ \E p \in Chain : ChainRuns(p)
         \/ Keys \/ HookMoves \/ HookEnsures \/ UNCHANGED blindVars
  BY DEF BlindNext, Handles, SaveRuns, Refreshes, ChainRuns, Keys, HookMoves

LEMMA HandlesLeave ==
  ASSUME NEW k \in Handler, Handles(k)
  PROVE  UNCHANGED <<backoff, hook, crashed>>
  BY DEF Handles, StartAgain, Stop, Configure, Load, Clear, Closed, Destroyed

LEMMA SavesLeave ==
  ASSUME SaveFires \/ \E s \in DOMAIN saves : SaveRuns(s)
  PROVE  UNCHANGED <<backoff, publishing, identity, hook, crashed, started>>
  BY DEF SaveFires, SaveRuns, SaveTakes, SaveEnds, SaveFails, SaveDone, life

LEMMA TablesLeave ==
  ASSUME Seed \/ RemoveRelay
  PROVE  UNCHANGED <<life, backoff, identity, hook, crashed>>
  BY DEF Seed, RemoveRelay

LEMMA RefreshesLeave ==
  ASSUME Refreshes
  PROVE  UNCHANGED <<life, tables, kept, publishing, identity, hook, crashed>>
  BY DEF Refreshes, Refresh, BackoffFires, RefreshEnds

LEMMA ChainLeaves ==
  ASSUME NEW p \in Chain, ChainRuns(p)
  PROVE  UNCHANGED <<life, tables, kept, backoff, identity, hook, crashed>>
  BY DEF ChainRuns, Acknowledged, GivesUp, RetryLater, RetryFires

LEMMA KeysLeave ==
  ASSUME Keys
  PROVE  UNCHANGED <<life, tables, kept, backoff, publishing, hook, crashed>>
  BY DEF Keys, KeyAppears, MonitorPolls, AskKey

LEMMA HookLeaves ==
  ASSUME HookMoves
  PROVE  UNCHANGED <<life, tables, kept, backoff, publishing, identity, crashed>>
  BY DEF HookMoves, Update, HookFires, HookReads, HookEnds, HookOnly

LEMMA EnsuresLeaves ==
  ASSUME HookEnsures
  PROVE  UNCHANGED <<life, backoff, identity, crashed>>
  BY DEF HookEnsures

-----------------------------------------------------------------------------
(* The refresh *)

LEMMA RefreshedKeeps ==
  ASSUME backoff \in Backoffs, RefreshIsRetried, started \in BOOLEAN, backoff' = Refreshed(backoff)
  PROVE  backoff' \in Backoffs /\ RefreshIsRetried'
  BY DEF Backoffs, Refreshed, RefreshIsRetried, Attempt

LEMMA RefreshEndsKeeps ==
  ASSUME BlindAssumption, backoff \in Backoffs, RefreshIsRetried, NEW ok \in BOOLEAN, RefreshEnds(ok)
  PROVE  backoff' \in Backoffs /\ RefreshIsRetried'
  <1>1. CASE ok
    <2>1. backoff' = [NoBackoff EXCEPT !.timer = backoff.timer]  BY <1>1 DEF RefreshEnds
    <2>2. backoff' = [attempt |-> 0, timer |-> backoff.timer, inflight |-> FALSE, idled |-> FALSE]
      BY <2>1 DEF NoBackoff
    <2> QED  BY <2>2 DEF Backoffs, RefreshIsRetried, Attempt, BlindAssumption
  <1>2. CASE ~ok
    <2> DEFINE next == IF backoff.attempt > MaxAttempts THEN backoff.attempt ELSE backoff.attempt + 1
    <2>1. backoff' = [backoff EXCEPT !.inflight = FALSE, !.attempt = next,
                                     !.timer = backoff.timer \/ next \in Attempt]
      BY <1>2 DEF RefreshEnds
    <2>2. next \in 0..(MaxAttempts + 1)  BY DEF Backoffs, BlindAssumption
    <2> HIDE DEF next
    <2>3. backoff'.attempt = next /\ backoff'.timer = (backoff.timer \/ next \in Attempt)
      BY <2>1 DEF Backoffs
    <2>4. (backoff.timer \/ next \in Attempt) \in BOOLEAN  OBVIOUS
    <2>5. backoff' \in Backoffs  BY <2>1, <2>2, <2>4 DEF Backoffs
    <2> QED  BY <2>3, <2>5 DEF RefreshIsRetried
  <1> QED  BY <1>1, <1>2

LEMMA BackoffKeeps ==
  ASSUME BlindAssumption, BlindInv, [BlindNext]_blindVars
  PROVE  backoff' \in Backoffs /\ RefreshIsRetried'
  <1>1. ASSUME UNCHANGED backoff  PROVE backoff' \in Backoffs /\ RefreshIsRetried'
    BY <1>1 DEF BlindInv, RefreshIsRetried
  <1>2. CASE Refreshes
    BY <1>2, RefreshedKeeps, RefreshEndsKeeps
    DEF Refreshes, Refresh, BackoffFires, BlindInv, Core, CoreTyped
  <1>3. CASE BlindCrash
    <2>1. backoff' = NoBackoff  BY <1>3 DEF BlindCrash
    <2> QED  BY <2>1 DEF NoBackoff, Backoffs, RefreshIsRetried, Attempt, BlindAssumption
  <1>4. CASE UNCHANGED blindVars  BY <1>1, <1>4 DEF blindVars
  <1> QED
    BY <1>1, <1>2, <1>3, <1>4, StepIs, HandlesLeave, SavesLeave, TablesLeave, ChainLeaves, KeysLeave,
       HookLeaves, EnsuresLeaves

-----------------------------------------------------------------------------
(* The hook *)

LEMMA ScheduledGives ==
  ASSUME NEW h \in Hooks, started \in BOOLEAN, hook' = Scheduled(h)
  PROVE  hook' \in Hooks /\ UpdateIsMirrored'
  BY DEF Hooks, HookRuns, Scheduled, UpdateIsMirrored

LEMMA HookMovesKeep ==
  ASSUME hook \in Hooks, UpdateIsMirrored, started \in BOOLEAN, HookMoves
  PROVE  hook' \in Hooks /\ UpdateIsMirrored'
  <1>1. CASE Update
    <2>1. [hook EXCEPT !.news = TRUE] \in Hooks  BY DEF Hooks
    <2> QED  BY <1>1, <2>1, ScheduledGives DEF Update, HookOnly
  <1>2. CASE HookFires
    BY <1>2 DEF HookFires, HookOnly, Hooks, HookRuns, UpdateIsMirrored
  <1>3. CASE HookReads
    BY <1>3 DEF HookReads, HookOnly, Hooks, HookRuns, UpdateIsMirrored
  <1>4. CASE HookEnds
    <2> DEFINE over == [hook EXCEPT !.run = "idle", !.pending = FALSE,
                                    !.dropped = @ \/ hook.run = "reading"]
    <2>1. over \in Hooks  BY DEF Hooks, HookRuns
    <2>2. CASE hook.pending  BY <1>4, <2>1, <2>2, ScheduledGives DEF HookEnds, HookOnly
    <2>3. CASE ~hook.pending
      <3>1. hook' = over  BY <1>4, <2>3 DEF HookEnds, HookOnly
      <3> QED  BY <1>4, <2>1, <2>3, <3>1 DEF HookEnds, Hooks, HookRuns, UpdateIsMirrored
    <2> QED  BY <2>2, <2>3
  <1> QED  BY <1>1, <1>2, <1>3, <1>4 DEF HookMoves

LEMMA HookKeeps ==
  ASSUME BlindInv, [BlindNext]_blindVars
  PROVE  hook' \in Hooks /\ UpdateIsMirrored'
  <1>1. ASSUME UNCHANGED hook  PROVE hook' \in Hooks /\ UpdateIsMirrored'
    BY <1>1 DEF BlindInv, UpdateIsMirrored
  <1>2. CASE HookMoves  BY <1>2, HookMovesKeep DEF BlindInv, Core, CoreTyped
  <1>3. CASE BlindCrash
    <2>1. hook' = NoHook  BY <1>3 DEF BlindCrash
    <2> QED  BY <2>1 DEF NoHook, Hooks, HookRuns, UpdateIsMirrored
  <1>4. CASE HookEnsures
    BY <1>4 DEF HookEnsures, BlindInv, Hooks, HookRuns, UpdateIsMirrored
  <1>5. CASE UNCHANGED blindVars  BY <1>1, <1>5 DEF blindVars
  <1> QED
    BY <1>1, <1>2, <1>3, <1>4, <1>5, StepIs, HandlesLeave, SavesLeave, TablesLeave, RefreshesLeave,
       ChainLeaves, KeysLeave

-----------------------------------------------------------------------------
(* The key *)

\* What a step does to the key: nothing, the end of a start, a stop, or a look.
KeyMoves ==
    \/ UNCHANGED <<started, identity>>
    \/ Up
    \/ started' = FALSE /\ identity' \in Identities
    \/ started' = started /\ identity' = Announced(identity)
    \/ started' = started /\ identity' = [identity EXCEPT !.known = TRUE]

LEMMA KeyMovesKeep ==
  ASSUME identity \in Identities, KeyIsSought, KeyMoves
  PROVE  identity' \in Identities /\ KeyIsSought'
  <1>1. CASE UNCHANGED <<started, identity>>  BY <1>1 DEF KeyIsSought
  <1>2. CASE Up  BY <1>2 DEF Up, Identities, KeyIsSought
  <1>3. CASE started' = FALSE /\ identity' \in Identities  BY <1>3 DEF KeyIsSought
  <1>4. CASE started' = started /\ identity' = Announced(identity)
    BY <1>4 DEF Announced, Identities, KeyIsSought
  <1>5. CASE started' = started /\ identity' = [identity EXCEPT !.known = TRUE]
    BY <1>5 DEF Identities, KeyIsSought
  <1> QED  BY <1>1, <1>2, <1>3, <1>4, <1>5 DEF KeyMoves

LEMMA HandlesKey ==
  ASSUME identity \in Identities, NEW k \in Handler, Handles(k)
  PROVE  KeyMoves
  <1>1. ASSUME BeginStart(k)  PROVE KeyMoves
    BY <1>1 DEF BeginStart, KeyMoves
  <1>2. ASSUME BeginStop(k)  PROVE KeyMoves
    BY <1>2 DEF BeginStop, KeyMoves, Identities
  <1>3. CASE StartAgain(k)  BY <1>1, <1>3 DEF StartAgain
  <1>4. CASE Stop(k)  BY <1>2, <1>4 DEF Stop
  <1>5. CASE Configure(k)  BY <1>1, <1>5 DEF Configure, KeyMoves
  <1>6. CASE Load(k)  BY <1>6 DEF Load, KeyMoves
  <1>7. CASE Clear(k)  BY <1>2, <1>7 DEF Clear, KeyMoves
  <1>8. CASE Closed(k)  BY <1>8 DEF Closed, KeyMoves
  <1>9. CASE Destroyed(k)  BY <1>9 DEF Destroyed, KeyMoves
  <1> QED  BY <1>3, <1>4, <1>5, <1>6, <1>7, <1>8, <1>9 DEF Handles

LEMMA KeyKeeps ==
  ASSUME BlindInv, [BlindNext]_blindVars
  PROVE  identity' \in Identities /\ KeyIsSought'
  <1>1. ASSUME UNCHANGED <<started, identity>>  PROVE KeyMoves  BY <1>1 DEF KeyMoves
  <1>2. ASSUME UNCHANGED <<life, identity>>  PROVE KeyMoves  BY <1>2 DEF KeyMoves, life
  <1>3. CASE \E k \in Handler : Handles(k)  BY <1>3, HandlesKey, KeyMovesKeep DEF BlindInv
  <1>4. CASE Keys
    <2>1. KeyMoves
      BY <1>4 DEF Keys, KeyAppears, MonitorPolls, AskKey, KeyMoves, life
    <2> QED  BY <2>1, KeyMovesKeep DEF BlindInv
  <1>5. CASE BlindCrash
    <2>1. started' = FALSE /\ identity' = NoIdentity  BY <1>5 DEF BlindCrash
    <2> QED  BY <2>1 DEF NoIdentity, Identities, KeyIsSought
  <1>6. CASE SaveFires \/ \E s \in DOMAIN saves : SaveRuns(s)
    BY <1>1, <1>6, SavesLeave, KeyMovesKeep DEF BlindInv
  <1>7. CASE UNCHANGED blindVars  BY <1>2, <1>7, KeyMovesKeep DEF blindVars, BlindInv
  <1>8. ASSUME UNCHANGED <<life, identity>>  PROVE identity' \in Identities /\ KeyIsSought'
    BY <1>2, <1>8, KeyMovesKeep DEF BlindInv
  <1> QED
    BY <1>3, <1>4, <1>5, <1>6, <1>7, <1>8, StepIs, TablesLeave, RefreshesLeave, ChainLeaves,
       HookLeaves, EnsuresLeaves

-----------------------------------------------------------------------------
(* The publications of the system core *)

LEMMA NoChainIs == NoChain.at = "idle" /\ (BlindAssumption => NoChain \in ChainsOf)
  BY DEF NoChain, ChainsOf, ChainRecords, Attempt, BlindAssumption

LEMMA BegunIs ==
  ASSUME NEW w \in ChainsOf, w.at # "idle"
  PROVE  w # NoChain
  BY NoChainIs

\* The chains are what they were, but for p and the one q whose timer is cleared.
LEMMA ChainsAfter ==
  ASSUME BlindAssumption, chains \in [Chain -> ChainsOf], NEW p \in Chain, NEW w \in ChainsOf, NEW q,
         chains' = [c \in Chain |-> IF c = p THEN w ELSE IF c = q THEN NoChain ELSE chains[c]]
  PROVE  chains' \in [Chain -> ChainsOf] /\ chains'[p] = w
  BY NoChainIs

LEMMA PublishKeeps ==
  ASSUME BlindAssumption, Publishing, NEW p \in Chain, PublishCore(p)
  PROVE  Publishing'
  <1> DEFINE w == [at |-> "adding", attempt |-> 1]
  <1>1. w \in ChainsOf /\ w.at # "idle"  BY DEF ChainsOf, ChainRecords, Attempt, BlindAssumption
  <1>2. chains' = [c \in Chain |-> IF c = p THEN w ELSE IF c = retryHandle THEN NoChain ELSE chains[c]]
    BY DEF PublishCore
  <1> HIDE DEF w
  <1>3. chains' \in [Chain -> ChainsOf] /\ chains'[p] # NoChain
    BY <1>1, <1>2, ChainsAfter, BegunIs DEF Publishing
  <1> QED  BY <1>3 DEF PublishCore, Publishing, CoreIsPublished

LEMMA ChainRunsKeep ==
  ASSUME BlindAssumption, Publishing, started \in BOOLEAN, NEW p \in Chain, ChainRuns(p)
  PROVE  Publishing'
  <1>1. CASE Acknowledged(p)
    BY <1>1, NoChainIs DEF Acknowledged, Publishing, CoreIsPublished
  <1>2. CASE GivesUp(p)
    BY <1>2, NoChainIs DEF GivesUp, Quiet, Publishing, CoreIsPublished
  <1>3. CASE RetryLater(p)
    <2> DEFINE w == [chains[p] EXCEPT !.at = "waiting"]
    <2>1. w \in ChainsOf /\ w.at # "idle"  BY <1>3 DEF RetryLater, Publishing, ChainsOf, ChainRecords
    <2>2. chains' = [c \in Chain |-> IF c = p THEN w ELSE IF c = retryHandle THEN NoChain ELSE chains[c]]
      BY <1>3 DEF RetryLater
    <2> HIDE DEF w
    <2>3. chains' \in [Chain -> ChainsOf] /\ chains'[p] # NoChain
      BY <2>1, <2>2, ChainsAfter, BegunIs DEF Publishing
    <2> QED  BY <1>3, <2>3 DEF RetryLater, Publishing, CoreIsPublished
  <1>4. CASE RetryFires(p)
    <2>1. CASE started /\ engine # "none"
      <3> DEFINE w == [at |-> "adding", attempt |-> chains[p].attempt + 1]
      <3>1. chains[p] \in ChainRecords /\ chains[p].attempt < MaxAttempts
        <4>1. chains[p] \in ChainsOf  BY DEF Publishing
        <4>2. chains[p].at = "waiting"  BY <1>4 DEF RetryFires
        <4> QED  BY <4>1, <4>2 DEF ChainsOf
      <3>2. chains[p].attempt + 1 \in Attempt
        BY <3>1 DEF ChainRecords, Attempt, BlindAssumption
      <3>3. w \in ChainsOf /\ w.at # "idle"
        BY <3>2 DEF ChainsOf, ChainRecords
      <3>4. chains' = [chains EXCEPT ![p] = w]  BY <1>4, <2>1 DEF RetryFires
      <3> HIDE DEF w
      <3>5. chains' \in [Chain -> ChainsOf] /\ chains'[p] # NoChain
        BY <3>3, <3>4, BegunIs DEF Publishing
      <3>6. retryHandle' = "none" /\ owed' = (owed /\ started /\ engine # "none")
        BY <1>4 DEF RetryFires
      <3> QED  BY <3>5, <3>6 DEF Publishing, CoreIsPublished
    <2>2. CASE ~(started /\ engine # "none")
      BY <1>4, <2>2, NoChainIs DEF RetryFires, Quiet, Publishing, CoreIsPublished
    <2> QED  BY <2>1, <2>2
  <1> QED  BY <1>1, <1>2, <1>3, <1>4 DEF ChainRuns

LEMMA HandlesPublish ==
  ASSUME BlindAssumption, Publishing, NEW k \in Handler, Handles(k)
  PROVE  Publishing'
  <1>1. ASSUME UNCHANGED publishing  PROVE Publishing'
    BY <1>1 DEF publishing, Publishing, CoreIsPublished
  <1>2. ASSUME BeginStop(k), UNCHANGED <<chains, retryHandle>>  PROVE Publishing'
    BY <1>2 DEF BeginStop, Publishing, CoreIsPublished
  <1>3. CASE StartAgain(k)  BY <1>1, <1>3 DEF StartAgain
  <1>4. CASE Stop(k)  BY <1>2, <1>4 DEF Stop
  <1>5. CASE Configure(k)  BY <1>1, <1>5 DEF Configure
  <1>6. CASE Load(k)  BY <1>1, <1>6 DEF Load
  <1>7. CASE Clear(k)
    BY <1>1, <1>2, <1>7 DEF Clear, publishing
  <1>8. CASE Closed(k)  BY <1>1, <1>8 DEF Closed
  <1>9. CASE Destroyed(k)
    BY <1>9, NoChainIs DEF Destroyed, Quiet, Publishing, CoreIsPublished
  <1> QED  BY <1>3, <1>4, <1>5, <1>6, <1>7, <1>8, <1>9 DEF Handles

LEMMA PublishingKeeps ==
  ASSUME BlindAssumption, BlindInv, [BlindNext]_blindVars
  PROVE  Publishing'
  <1>1. ASSUME UNCHANGED publishing  PROVE Publishing'
    BY <1>1 DEF publishing, BlindInv, Publishing, CoreIsPublished
  <1>2. ASSUME MirrorRelay  PROVE Publishing'
    BY <1>1, <1>2, PublishKeeps DEF MirrorRelay, NoPublish, BlindInv
  <1>3. CASE Seed \/ RemoveRelay  BY <1>1, <1>2, <1>3 DEF Seed, RemoveRelay, NoPublish
  <1>4. CASE HookEnsures  BY <1>1, <1>2, <1>4 DEF HookEnsures
  <1>5. CASE BlindCrash
    <2>1. chains' = NoChains /\ retryHandle' = "none" /\ owed' = FALSE  BY <1>5 DEF BlindCrash
    <2>2. NoChains \in [Chain -> ChainsOf]  BY NoChainIs DEF NoChains
    <2> QED  BY <2>1, <2>2 DEF Publishing, CoreIsPublished
  <1>6. CASE \E p \in Chain : ChainRuns(p)
    BY <1>6, ChainRunsKeep DEF BlindInv, Core, CoreTyped
  <1>7. CASE \E k \in Handler : Handles(k)  BY <1>7, HandlesPublish DEF BlindInv
  <1>8. CASE UNCHANGED blindVars  BY <1>1, <1>8 DEF blindVars
  <1> QED
    BY <1>1, <1>3, <1>4, <1>5, <1>6, <1>7, <1>8, StepIs, SavesLeave, RefreshesLeave, KeysLeave, HookLeaves

-----------------------------------------------------------------------------
(* The tables *)

LEMMA CoreStays ==
  ASSUME Core, UNCHANGED <<life, tables, kept, crashed>>
  PROVE  Core'
  BY DEF Core, CoreTyped, Wanted, NothingUnderWay, Idle, Busy, OnEngine, StartsOrRuns, Stopping,
         Unloaded, Cleared, Stale, FileKept, TablesAgree, life, tables

LEMMA MirroredKeeps ==
  ASSUME Core, NEW t \in {"relay", "pfp-drive"}, Mirrored(t), UNCHANGED <<life, crashed>>
  PROVE  Core'
  <1>1. TableKey(t) \in Key /\ t \in Key  BY DEF TableKey, Key
  <1>2. CoreTyped'  BY <1>1 DEF Mirrored, Core, CoreTyped, life
  <1>3. Wanted' /\ OnEngine'
    BY DEF Core, Wanted, NothingUnderWay, Idle, Busy, OnEngine, StartsOrRuns, Stopping, life
  <1>4. Unloaded'  BY DEF Mirrored, Core, Unloaded, life
  <1>5. Cleared'
    <2>1. t = "pfp-drive" \/ TableKey(t) = t  BY DEF TableKey
    <2> QED  BY <2>1 DEF Mirrored, Core, Cleared, Stale, life
  <1>6. FileKept'  BY DEF Mirrored, Core, CoreTyped, Unloaded, FileKept, life
  <1>7. TablesAgree'
    <2>1. TableKey(t) \in targets' \/ (TableKey(t) = "drive" /\ "pfp-drive" \in targets')
      BY DEF Mirrored, TableKey
    <2>2. /\ mirrorTargets' = mirrorTargets \cup {TableKey(t)} /\ targets \subseteq targets'
          /\ loaded' = loaded /\ reread' = reread
      BY DEF Mirrored
    <2> QED  BY <2>1, <2>2 DEF Core, TablesAgree
  <1> QED  BY <1>2, <1>3, <1>4, <1>5, <1>6, <1>7 DEF Core

\* The tables without an entry agree, and the file is behind them.
LEMMA RemovedKeeps ==
  ASSUME Core, NEW t \in Key, Removed(t)
  PROVE  /\ dirty' \in BOOLEAN /\ saveTimer' \in BOOLEAN
         /\ mirrorTargets' \in SUBSET Key /\ targets' \in SUBSET Key
         /\ TablesAgree'
         /\ targets' \subseteq mirrorTargets' \cup {"pfp-drive"}
         /\ mirrorTargets' \subseteq mirrorTargets \ {TableKey(t)} /\ targets' \subseteq targets \ {TableKey(t)}
         /\ (loaded /\ ~outdated /\ ~dirty' => targets' = metadata.held)
         /\ (dirty' => dirty \/ saveTimer') /\ (dirty /\ saveTimer => saveTimer')
         /\ (~loaded => ~dirty')
  <1>1. TableKey(t) # "pfp-drive"  BY DEF TableKey
  <1>2. /\ mirrorTargets' = mirrorTargets \ {TableKey(t)} /\ targets' = targets \ {TableKey(t)}
        /\ loaded' = loaded /\ reread' = reread
        /\ IF targets' = targets THEN dirty' = dirty /\ saveTimer' = saveTimer ELSE dirty' = TRUE /\ saveTimer' = TRUE
    BY DEF Removed, Note
  <1>3. TablesAgree'  BY <1>1, <1>2 DEF Core, TablesAgree
  <1> QED  BY <1>1, <1>2, <1>3 DEF Core, CoreTyped, Cleared, FileKept, Unloaded

LEMMA RemoveRelayKeeps ==
  ASSUME Core, RemoveRelay
  PROVE  Core'
  <1>1. Removed("relay") /\ "relay" \in Key /\ UNCHANGED <<life, crashed>>  BY DEF RemoveRelay, Key
  <1>2. UNCHANGED <<loaded, saves, metadata, reread, outdated, kept>>  BY <1>1 DEF Removed
  <1>3. CoreTyped'  BY <1>1, <1>2, RemovedKeeps DEF Core, CoreTyped, life
  <1>4. Wanted' /\ OnEngine'
    BY <1>1 DEF Core, Wanted, NothingUnderWay, Idle, Busy, OnEngine, StartsOrRuns, Stopping, life
  <1>5. Unloaded'  BY <1>1, <1>2, RemovedKeeps DEF Core, Unloaded, life
  <1>6. Cleared'
    <2>1. mirrorTargets' \cup targets' \subseteq mirrorTargets \cup targets  BY <1>1, RemovedKeeps
    <2>2. targets' \subseteq mirrorTargets' \cup {"pfp-drive"}  BY <1>1, RemovedKeeps
    <2> QED  BY <1>1, <1>2, <2>1, <2>2 DEF Core, Cleared, Stale, life
  <1>7. FileKept'  BY <1>1, <1>2, RemovedKeeps DEF Core, CoreTyped, FileKept, life
  <1> QED  BY <1>1, <1>3, <1>4, <1>5, <1>6, <1>7, RemovedKeeps DEF Core

-----------------------------------------------------------------------------
(* The handlers *)

\* A step that leaves the tables alone leaves them agreeing.
LEMMA TablesStay ==
  ASSUME Core, UNCHANGED <<tables, kept>>
  PROVE  TablesAgree'
  BY DEF Core, TablesAgree, tables

\* What a handler that begins to start, or starts, finds.
LEMMA BeginStartKeeps ==
  ASSUME Core, NEW k \in Handler, Idle(k), enabled' = TRUE, BeginStart(k),
         missed' = ~Alone(k), UNCHANGED <<tables, kept, crashed>>
  PROVE  Core'
  <1>1. CASE loaded
    <2>1. handler' = handler /\ started' = TRUE /\ engine' = "live" /\ clearing' = clearing
          /\ crossed' = (\E o \in Handler : Stopping(o))
      BY <1>1 DEF BeginStart, Up
    <2>2. CoreTyped'  BY <2>1 DEF Core, CoreTyped, tables
    <2>3. Wanted'
      <3> SUFFICES ASSUME ~missed'  PROVE Wanted'  BY DEF Wanted
      <3>1. \A o \in Handler : handler'[o] = Free  BY <2>1 DEF Idle, Alone
      <3> QED  BY <2>1, <3>1 DEF Wanted, Busy, Free
    <2>4. OnEngine'  BY <2>1 DEF OnEngine, Stopping
    <2>5. Unloaded'  BY <1>1 DEF Unloaded, tables
    <2>6. Cleared' /\ FileKept'  BY <2>1 DEF Core, Cleared, Stale, FileKept, tables
    <2> QED  BY <2>2, <2>3, <2>4, <2>5, <2>6, TablesStay DEF Core
  <1>2. CASE ~loaded
    <2>1. handler' = [handler EXCEPT ![k] = "loading"] /\ started' = started /\ engine' = "live"
          /\ clearing' = clearing /\ crossed' = (\E o \in Handler : Stopping(o))
      BY <1>2 DEF BeginStart
    <2>2. CoreTyped'  BY <2>1 DEF Core, CoreTyped, Stages, tables
    <2>3. Wanted'
      BY <2>1 DEF Core, CoreTyped, Wanted, NothingUnderWay, Idle, Busy, Alone, Free
    <2>4. OnEngine'  BY <2>1 DEF Core, CoreTyped, OnEngine, Stopping, Idle, Free
    <2>5. Unloaded'  BY <1>2, <2>1 DEF Core, CoreTyped, Unloaded, tables
    <2>6. Cleared' /\ FileKept'
      BY <2>1 DEF Core, CoreTyped, Cleared, Stale, FileKept, tables, Idle, Free
    <2> QED  BY <2>2, <2>3, <2>4, <2>5, <2>6, TablesStay DEF Core
  <1> QED  BY <1>1, <1>2

LEMMA LoadKeeps ==
  ASSUME Core, NEW k \in Handler, Load(k)
  PROVE  Core'
  <1>1. /\ handler[k] = "loading" /\ handler' = [handler EXCEPT ![k] = Free] /\ started' = TRUE
        /\ loaded' = TRUE /\ reread' = (reread \/ loaded)
        /\ targets' = (IF metadata.read THEN metadata.held ELSE targets)
        /\ mirrorTargets' = mirrorTargets \cup metadata.held /\ kept' = kept \cup metadata.held
        /\ UNCHANGED <<dirty, saveTimer, saves, metadata, outdated>>
        /\ UNCHANGED <<enabled, engine, clearing, missed, crossed, crashed>>
    BY DEF Load, Up
  <1>2. metadata.held \in SUBSET Key /\ metadata.read \in BOOLEAN  BY DEF Core, CoreTyped, MetadataFiles
  <1>3. CoreTyped'  BY <1>1, <1>2 DEF Core, CoreTyped, Stages
  <1>4. Wanted'  BY <1>1 DEF Core, CoreTyped, Wanted, NothingUnderWay, Idle, Busy, Free
  <1>5. OnEngine'  BY <1>1 DEF Core, CoreTyped, OnEngine, StartsOrRuns, Stopping, Free
  <1>6. Unloaded'  BY <1>1 DEF Unloaded
  <1>7. Cleared'  BY <1>1, <1>2 DEF Core, CoreTyped, Cleared, Stale, Free
  <1>8. FileKept'  BY <1>1, <1>2 DEF Core, CoreTyped, FileKept, Unloaded, Free
  <1>9. TablesAgree'
    <2>1. CASE loaded  BY <1>1, <2>1 DEF TablesAgree
    <2>2. CASE ~loaded
      BY <1>1, <1>2, <2>2 DEF Core, Unloaded, FileKept, TablesAgree
    <2> QED  BY <2>1, <2>2
  <1> QED  BY <1>3, <1>4, <1>5, <1>6, <1>7, <1>8, <1>9 DEF Core

\* A handler that begins to stop had the settings for it, or they do not count.
LEMMA BeginStopKeeps ==
  ASSUME Core, NEW k \in Handler, handler[k] \in {Free, "clearing"}, BeginStop(k), clearing[k] = {},
         missed' \in BOOLEAN, ~missed' => ~missed /\ handler[k] = "clearing",
         UNCHANGED <<enabled, engine, clearing, tables, kept, crashed>>
  PROVE  Core'
  <1>1. CASE started
    <2>1. started' = FALSE /\ handler' = [handler EXCEPT ![k] = "closing"]
          /\ crossed' = (crossed \/ \E o \in Handler : handler[o] = "loading")
      BY <1>1 DEF BeginStop
    <2>2. CoreTyped'  BY <2>1 DEF Core, CoreTyped, Stages, tables
    <2>3. Wanted'
      BY <2>1 DEF Core, CoreTyped, Wanted, NothingUnderWay, Idle, Busy, Free
    <2>4. OnEngine'  BY <2>1 DEF Core, CoreTyped, OnEngine, StartsOrRuns, Free
    <2>5. Unloaded'  BY <1>1, <2>1 DEF Core, Unloaded, tables
    <2>6. Cleared' /\ FileKept'
      BY <2>1 DEF Core, CoreTyped, Cleared, Stale, FileKept, tables, Free
    <2> QED  BY <2>2, <2>3, <2>4, <2>5, <2>6, TablesStay DEF Core
  <1>2. CASE ~started
    <2>1. started' = started /\ handler' = [handler EXCEPT ![k] = Free] /\ crossed' = crossed
      BY <1>2 DEF BeginStop
    <2>2. CoreTyped'  BY <2>1 DEF Core, CoreTyped, Stages, tables
    <2>3. Wanted'
      BY <1>2, <2>1 DEF Core, CoreTyped, Wanted, NothingUnderWay, Idle, Busy, Free
    <2>4. OnEngine'  BY <2>1 DEF Core, CoreTyped, OnEngine, StartsOrRuns, Stopping, Free
    <2>5. Unloaded'  BY <2>1 DEF Core, CoreTyped, Unloaded, tables
    <2>6. Cleared' /\ FileKept'
      BY <2>1 DEF Core, CoreTyped, Cleared, Stale, FileKept, tables, Free
    <2> QED  BY <2>2, <2>3, <2>4, <2>5, <2>6, TablesStay DEF Core
  <1> QED  BY <1>1, <1>2

LEMMA ConfigureKeeps ==
  ASSUME Core, NEW k \in Handler, Configure(k)
  PROVE  Core'
  <1>1. /\ Idle(k) /\ enabled' \in BOOLEAN /\ missed' = ~Alone(k)
        /\ UNCHANGED <<tables, crashed>>
    BY DEF Configure
  <1>2. CASE enabled' /\ BeginStart(k) /\ UNCHANGED kept
    BY <1>1, <1>2, BeginStartKeeps
  <1>3. CASE /\ ~enabled' /\ started
             /\ handler' = [handler EXCEPT ![k] = "clearing"]
             /\ clearing' = [clearing EXCEPT ![k] = mirrorTargets]
             /\ kept' = {"pfp-drive"}
             /\ UNCHANGED <<started, engine, crossed>>
    <2>1. CoreTyped'  BY <1>1, <1>3 DEF Core, CoreTyped, Stages, Key, tables
    <2>2. Wanted'
      BY <1>1, <1>3 DEF Core, CoreTyped, Wanted, NothingUnderWay, Idle, Busy, Alone, Free
    <2>3. OnEngine'  BY <1>3 DEF Core, CoreTyped, OnEngine, StartsOrRuns, Stopping
    <2>4. Unloaded'  BY <1>1, <1>3 DEF Core, Unloaded, tables
    <2>5. Cleared'
      <3>1. clearing'[k] = mirrorTargets /\ mirrorTargets' = mirrorTargets /\ targets' = targets
        BY <1>1, <1>3 DEF Core, CoreTyped, tables
      <3>2. mirrorTargets \subseteq Stale'  BY <3>1 DEF Core, CoreTyped, Stale
      <3>3. \A o \in Handler : clearing'[o] # {} => handler'[o] = "clearing"
        BY <1>3 DEF Core, CoreTyped, Cleared
      <3> QED  BY <1>3, <3>1, <3>2, <3>3 DEF Core, Cleared
    <2>6. FileKept'  BY <1>1, <1>3 DEF Core, CoreTyped, FileKept, Idle, Free, tables
    <2>7. TablesAgree'  BY <1>1 DEF Core, TablesAgree, tables
    <2> QED  BY <2>1, <2>2, <2>3, <2>4, <2>5, <2>6, <2>7 DEF Core
  <1>4. CASE enabled' = started /\ UNCHANGED <<started, engine, handler, clearing, crossed, kept>>
    <2>1. CoreTyped'  BY <1>1, <1>4 DEF Core, CoreTyped, tables
    <2>2. Wanted'
      <3> SUFFICES ASSUME ~missed'  PROVE Wanted'  BY DEF Wanted
      <3>1. \A o \in Handler : handler'[o] = Free  BY <1>1, <1>4 DEF Idle, Alone
      <3> QED  BY <1>4, <3>1 DEF Wanted, Busy, Free
    <2>3. OnEngine'  BY <1>4 DEF Core, OnEngine, StartsOrRuns, Stopping
    <2>4. Unloaded'  BY <1>1, <1>4 DEF Core, Unloaded, tables
    <2>5. Cleared' /\ FileKept'  BY <1>1, <1>4 DEF Core, Cleared, Stale, FileKept, tables
    <2> QED  BY <1>1, <1>4, <2>1, <2>2, <2>3, <2>4, <2>5, TablesStay DEF Core
  <1> QED
    <2>1. enabled' => enabled' = TRUE  BY <1>1
    <2> QED  BY <1>1, <1>2, <1>3, <1>4, <2>1 DEF Configure

LEMMA ClearKeeps ==
  ASSUME Core, NEW k \in Handler, Clear(k)
  PROVE  Core'
  <1>1. handler[k] = "clearing" /\ UNCHANGED <<enabled, engine, missed, crashed>>  BY DEF Clear
  <1>2. CASE clearing[k] = {}
    <2>1. BeginStop(k) /\ UNCHANGED <<clearing, tables, kept>>  BY <1>2 DEF Clear
    <2> QED  BY <1>1, <1>2, <2>1, BeginStopKeeps DEF Core, CoreTyped
  <1>3. CASE clearing[k] # {}
    <2>1. PICK t \in clearing[k] : clearing' = [clearing EXCEPT ![k] = @ \ {t}] /\ Removed(t)
      BY <1>3 DEF Clear
    <2>2. t \in Key /\ UNCHANGED <<started, handler, crossed>>  BY <1>3 DEF Clear, Core, CoreTyped
    <2>3. UNCHANGED <<loaded, saves, metadata, reread, outdated, kept>>  BY <2>1 DEF Removed
    <2>4. CoreTyped'  BY <1>1, <2>1, <2>2, <2>3, RemovedKeeps DEF Core, CoreTyped
    <2>5. Wanted' /\ OnEngine'
      BY <1>1, <2>2 DEF Core, Wanted, NothingUnderWay, Idle, Busy, OnEngine, StartsOrRuns, Stopping
    <2>6. Unloaded'  BY <2>1, <2>2, <2>3, RemovedKeeps DEF Core, Unloaded
    <2>7. Cleared'
      <3>1. /\ mirrorTargets' \subseteq mirrorTargets \ {TableKey(t)} /\ targets' \subseteq targets \ {TableKey(t)}
            /\ targets' \subseteq mirrorTargets' \cup {"pfp-drive"}
        BY <2>1, <2>2, RemovedKeeps
      <3>2. "pfp-drive" \in kept  BY <1>1 DEF Core, Cleared
      <3>3. t = "pfp-drive" \/ t = TableKey(t)  BY DEF TableKey
      <3>4. \A x \in Stale : x # t => x \in Stale'
        <4> TAKE x \in Stale
        <4>1. PICK o \in Handler : x \in clearing[o]  BY DEF Stale
        <4>2. x # t => x \in clearing'[o]  BY <2>1, <4>1 DEF Core, CoreTyped
        <4> QED  BY <4>2 DEF Stale
      <3>5. mirrorTargets' \cup targets' \subseteq kept' \cup Stale'
        BY <2>3, <3>1, <3>2, <3>3, <3>4 DEF Core, Cleared
      <3>6. \A o \in Handler : clearing'[o] \subseteq clearing[o]  BY <2>1 DEF Core, CoreTyped
      <3>7. \A o \in Handler : clearing'[o] # {} => handler'[o] = "clearing" /\ "pfp-drive" \in kept'
        BY <2>2, <2>3, <3>2, <3>6 DEF Core, Cleared
      <3> QED  BY <2>2, <2>3, <3>1, <3>2, <3>5, <3>7 DEF Core, Cleared
    <2>8. FileKept'  BY <2>1, <2>2, <2>3, RemovedKeeps DEF Core, CoreTyped, FileKept
    <2> QED  BY <2>1, <2>2, <2>4, <2>5, <2>6, <2>7, <2>8, RemovedKeeps DEF Core
  <1> QED  BY <1>2, <1>3

LEMMA ClosedKeeps ==
  ASSUME Core, NEW k \in Handler, Closed(k)
  PROVE  Core'
  <1>1. CoreTyped'  BY DEF Closed, Core, CoreTyped, Stages, tables
  <1>2. Wanted'  BY DEF Closed, Core, CoreTyped, Wanted, NothingUnderWay, Idle, Busy, Free
  <1>3. OnEngine'  BY DEF Closed, Core, CoreTyped, OnEngine, StartsOrRuns, Stopping
  <1>4. Unloaded'  BY DEF Closed, Core, CoreTyped, Unloaded, tables, Free
  <1>5. Cleared' /\ FileKept'
    BY DEF Closed, Core, CoreTyped, Cleared, Stale, FileKept, tables
  <1> QED  BY <1>1, <1>2, <1>3, <1>4, <1>5, TablesStay DEF Closed, Core

LEMMA DestroyedKeeps ==
  ASSUME Core, NEW k \in Handler, Destroyed(k)
  PROVE  Core'
  <1>1. /\ handler[k] = "destroying" /\ handler' = [handler EXCEPT ![k] = "saving"]
        /\ engine' = (IF engine = "live" THEN "dead" ELSE engine) /\ saveTimer' = FALSE
        /\ saves' = [saves EXCEPT ![k] = [at |-> "mkdir"]]
        /\ UNCHANGED <<loaded, mirrorTargets, targets, dirty, metadata, reread, outdated>>
        /\ UNCHANGED <<enabled, started, clearing, missed, crossed, kept, crashed>>
    BY DEF Destroyed
  <1>2. CoreTyped'  BY <1>1 DEF Core, CoreTyped, Stages, IsWrite, Writer
  <1>3. Wanted'  BY <1>1 DEF Core, CoreTyped, Wanted, NothingUnderWay, Idle, Busy, Free
  <1>4. OnEngine'  BY <1>1 DEF Core, CoreTyped, OnEngine, StartsOrRuns, Stopping
  <1>5. Unloaded'  BY <1>1 DEF Core, CoreTyped, Unloaded, Free
  <1>6. Cleared'  BY <1>1 DEF Core, CoreTyped, Cleared, Stale
  <1>7. saves'[k] = [at |-> "mkdir"] /\ [at |-> "mkdir"] # NoSave
    BY <1>1 DEF Core, CoreTyped, Writer, NoSave
  <1>8. FileKept'  BY <1>1, <1>7 DEF Core, CoreTyped, Writer, FileKept
  <1>9. TablesAgree'  BY <1>1 DEF Core, TablesAgree
  <1> QED  BY <1>2, <1>3, <1>4, <1>5, <1>6, <1>8, <1>9 DEF Core

-----------------------------------------------------------------------------
(* The file *)

LEMMA SaveFiresKeeps ==
  ASSUME BlindAssumption, Core, SaveFires
  PROVE  Core'
  <1>1. /\ saveTimer' = FALSE /\ saves["timer"] = NoSave
        /\ saves' = [saves EXCEPT !["timer"] = IF dirty THEN [at |-> "mkdir"] ELSE NoSave]
        /\ UNCHANGED <<loaded, mirrorTargets, targets, dirty, metadata, reread, outdated>>
        /\ UNCHANGED <<life, kept, crashed>>
    BY DEF SaveFires
  <1>2. CoreTyped'  BY <1>1 DEF Core, CoreTyped, IsWrite, Writer, life
  <1>3. Wanted' /\ OnEngine'
    BY <1>1 DEF Core, Wanted, NothingUnderWay, Idle, Busy, OnEngine, StartsOrRuns, Stopping, life
  <1>4. Unloaded' /\ Cleared'  BY <1>1 DEF Core, Unloaded, Cleared, Stale, life
  <1>5. FileKept'
    <2>1. dirty => saves'["timer"] # NoSave  BY <1>1 DEF Core, CoreTyped, Writer, NoSave
    <2>2. \A k \in Handler : saves'[k] # NoSave => handler'[k] = "saving"
      BY <1>1 DEF BlindAssumption, Core, CoreTyped, Writer, FileKept, life, NoSave
    <2> QED  BY <1>1, <2>1, <2>2 DEF Core, FileKept
  <1>6. TablesAgree'  BY <1>1 DEF Core, TablesAgree
  <1> QED  BY <1>2, <1>3, <1>4, <1>5, <1>6 DEF Core

LEMMA SaveTakesKeeps ==
  ASSUME Core, NEW s \in Writer, SaveTakes(s)
  PROVE  Core'
  <1> DEFINE w == [at |-> "write", held |-> targets]
  <1>1. /\ saves[s] = [at |-> "mkdir"] /\ saves' = [saves EXCEPT ![s] = w]
        /\ UNCHANGED <<loaded, mirrorTargets, targets, dirty, saveTimer, metadata, reread, outdated>>
        /\ UNCHANGED <<life, kept, crashed>>
    BY DEF SaveTakes
  <1>2. w \in Writing(SUBSET Key) /\ w # NoSave /\ saves[s] # NoSave
    BY <1>1 DEF Core, CoreTyped, Writing, NoSave
  <1> HIDE DEF w
  <1>3. CoreTyped'  BY <1>1, <1>2 DEF Core, CoreTyped, IsWrite, life
  <1>4. Wanted' /\ OnEngine'
    BY <1>1 DEF Core, Wanted, NothingUnderWay, Idle, Busy, OnEngine, StartsOrRuns, Stopping, life
  <1>5. Unloaded' /\ Cleared'  BY <1>1 DEF Core, Unloaded, Cleared, Stale, life
  <1>6. FileKept'
    <2>1. \A o \in Writer : saves'[o] # NoSave <=> saves[o] # NoSave
      BY <1>1, <1>2 DEF Core, CoreTyped
    <2> QED  BY <1>1, <2>1 DEF Core, FileKept, Writer, life
  <1>7. TablesAgree'  BY <1>1 DEF Core, TablesAgree
  <1> QED  BY <1>3, <1>4, <1>5, <1>6, <1>7 DEF Core

LEMMA SaveDoneKeeps ==
  ASSUME Core, NEW s \in Writer, SaveEnds(s) \/ SaveFails(s)
  PROVE  Core'
  <1>1. /\ saves[s].at = "write" /\ saves' = [saves EXCEPT ![s] = NoSave]
        /\ handler' = IF s \in Handler THEN [handler EXCEPT ![s] = Free] ELSE handler
        /\ UNCHANGED <<loaded, mirrorTargets, targets, saveTimer, reread>>
        /\ UNCHANGED <<enabled, started, engine, clearing, missed, crossed>>
        /\ UNCHANGED <<kept, crashed>>
    BY DEF SaveEnds, SaveFails, SaveDone
  <1>2. saves[s] # NoSave /\ (s \in Handler => handler[s] = "saving")
    <2>1. saves[s] # NoSave  BY <1>1 DEF NoSave
    <2> QED  BY <2>1 DEF Core, FileKept
  <1>3. saves[s].held \in SUBSET Key
    <2>1. IsWrite(saves[s])  BY DEF Core, CoreTyped
    <2>2. [at |-> "mkdir"].at # "write"  OBVIOUS
    <2> QED  BY <1>1, <1>2, <2>1, <2>2 DEF IsWrite, Writing
  <1>4. \/ /\ metadata' = [read |-> TRUE, held |-> saves[s].held] /\ dirty' = FALSE
           /\ outdated' = (saves[s].held # targets)
        \/ outdated' = TRUE /\ metadata' = metadata /\ dirty' = dirty
    BY DEF SaveEnds, SaveFails
  <1>5. /\ metadata' \in MetadataFiles /\ outdated' \in BOOLEAN /\ dirty' \in BOOLEAN
        /\ ~(metadata'.read) => metadata'.held = {}
        /\ ~outdated' /\ ~dirty' => targets' = metadata'.held
    <2>1. CASE metadata' = [read |-> TRUE, held |-> saves[s].held] /\ dirty' = FALSE
               /\ outdated' = (saves[s].held # targets)
      BY <1>1, <1>3, <2>1 DEF MetadataFiles
    <2>2. CASE outdated' = TRUE /\ metadata' = metadata /\ dirty' = dirty
      BY <2>2 DEF Core, CoreTyped, FileKept
    <2> QED  BY <1>4, <2>1, <2>2
  <1>6. CoreTyped'
    <2>1. /\ DOMAIN saves' = Writer /\ saves' = [o \in Writer |-> saves'[o]]
          /\ \A o \in Writer : IsWrite(saves'[o])
      BY <1>1 DEF Core, CoreTyped, IsWrite
    <2>2. handler' \in [Handler -> Stages]  BY <1>1 DEF Core, CoreTyped, Stages
    <2> QED  BY <1>1, <1>5, <2>1, <2>2 DEF Core, CoreTyped
  <1>7. Wanted'
    BY <1>1, <1>2 DEF Core, CoreTyped, Wanted, NothingUnderWay, Idle, Busy, Free
  <1>8. OnEngine'  BY <1>1, <1>2 DEF Core, CoreTyped, OnEngine, StartsOrRuns, Stopping, Free
  <1>9. Unloaded'  BY <1>1, <1>4 DEF Core, CoreTyped, Unloaded, Free
  <1>10. Cleared'  BY <1>1, <1>2 DEF Core, CoreTyped, Cleared, Stale, Free
  <1>11. FileKept'
    <2>1. ~(dirty' /\ ~outdated')  BY <1>4
    <2>2. \A k \in Handler : saves'[k] # NoSave => handler'[k] = "saving"
      BY <1>1 DEF Core, CoreTyped, FileKept, Writer
    <2> QED  BY <1>5, <2>1, <2>2 DEF FileKept
  <1>12. TablesAgree'  BY <1>1 DEF Core, TablesAgree
  <1> QED  BY <1>6, <1>7, <1>8, <1>9, <1>10, <1>11, <1>12 DEF Core

\* The first step of a worker, or one that crashed, of the tables.
LEMMA CoreStarts ==
  ASSUME enabled' \in BOOLEAN, metadata' \in MetadataFiles, ~(metadata'.read) => metadata'.held = {},
         crashed' \in 0..MaxRestarts,
         started' = FALSE /\ engine' = "none" /\ handler' = AllFree /\ clearing' = NothingCleared,
         loaded' = FALSE /\ dirty' = FALSE /\ saveTimer' = FALSE /\ saves' = NoSaves,
         mirrorTargets' = {} /\ targets' = {} /\ kept' = {},
         missed' = TRUE /\ crossed' = FALSE /\ reread' = FALSE /\ outdated' = FALSE
  PROVE  Core'
  <1>1. CoreTyped'
    BY DEF CoreTyped, AllFree, NothingCleared, NoSaves, Writer, IsWrite, Stages
  <1>2. Wanted' /\ Unloaded' /\ TablesAgree'
    BY DEF Wanted, Unloaded, TablesAgree, AllFree
  <1>3. OnEngine'  BY DEF OnEngine, StartsOrRuns, AllFree, Free
  <1>4. Cleared' /\ FileKept'
    BY DEF Cleared, Stale, FileKept, NothingCleared, AllFree, Free, NoSaves, Writer
  <1> QED  BY <1>1, <1>2, <1>3, <1>4 DEF Core

LEMMA CrashKeeps ==
  ASSUME Core, BlindAssumption, BlindCrash
  PROVE  Core'
  <1>1. Unreadable \in MetadataFiles /\ Unreadable.held = {}  BY DEF Unreadable, MetadataFiles
  <1>2. metadata' \in {metadata, Unreadable}  BY DEF BlindCrash
  <1>3. metadata' \in MetadataFiles /\ (~(metadata'.read) => metadata'.held = {})
    BY <1>1, <1>2 DEF Core, CoreTyped, FileKept
  <1>4. enabled' \in BOOLEAN /\ crashed' \in 0..MaxRestarts
    BY DEF BlindCrash, Core, CoreTyped, BlindAssumption
  <1> QED  BY <1>3, <1>4, CoreStarts DEF BlindCrash

-----------------------------------------------------------------------------
(* Together *)

LEMMA HandlesKeep ==
  ASSUME Core, NEW k \in Handler, Handles(k)
  PROVE  Core'
  <1>1. CASE StartAgain(k)
    <2>1. enabled' = TRUE /\ Idle(k) /\ BeginStart(k) /\ missed' = ~Alone(k)
      BY <1>1 DEF StartAgain, Core, CoreTyped
    <2>2. UNCHANGED <<tables, kept, crashed>>  BY <1>1 DEF StartAgain
    <2> QED  BY <2>1, <2>2, BeginStartKeeps
  <1>2. CASE Stop(k)
    <2>1. handler[k] = Free /\ BeginStop(k) /\ missed' = TRUE
      BY <1>2 DEF Stop, Idle
    <2>2. clearing[k] = {}  BY <2>1 DEF Core, Cleared, Free
    <2>3. UNCHANGED <<enabled, engine, clearing, tables, kept, crashed>>  BY <1>2 DEF Stop
    <2> QED  BY <2>1, <2>2, <2>3, BeginStopKeeps
  <1> QED
    BY <1>1, <1>2, ConfigureKeeps, LoadKeeps, ClearKeeps, ClosedKeeps, DestroyedKeeps DEF Handles

LEMMA CoreKeeps ==
  ASSUME BlindAssumption, BlindInv, [BlindNext]_blindVars
  PROVE  Core'
  <1> USE DEF BlindInv
  <1>1. ASSUME Mirrored("relay") \/ Mirrored("pfp-drive"), UNCHANGED <<life, crashed>>  PROVE Core'
    BY <1>1, MirroredKeeps
  <1>2. CASE Seed  BY <1>1, <1>2 DEF Seed, MirrorRelay
  <1>3. CASE HookEnsures
    BY <1>1, <1>3, CoreStays DEF HookEnsures, MirrorRelay
  <1>4. CASE \E s \in DOMAIN saves : SaveRuns(s)
    BY <1>4, SaveTakesKeeps, SaveDoneKeeps DEF SaveRuns, Core, CoreTyped
  <1>5. CASE UNCHANGED blindVars  BY <1>5, CoreStays DEF blindVars
  <1>6. CASE \E k \in Handler : Handles(k)  BY <1>6, HandlesKeep
  <1> QED
    BY <1>2, <1>3, <1>4, <1>5, <1>6, StepIs, CoreStays, SaveFiresKeeps, CrashKeeps, RemoveRelayKeeps,
       RefreshesLeave, ChainLeaves, KeysLeave, HookLeaves

LEMMA BlindStart ==
  ASSUME BlindAssumption, BlindInit
  PROVE  BlindInv
  <1>1. /\ metadata = Unreadable /\ crashed = 0 /\ enabled \in BOOLEAN
        /\ started = FALSE /\ engine = "none" /\ handler = AllFree /\ clearing = NothingCleared
        /\ loaded = FALSE /\ dirty = FALSE /\ saveTimer = FALSE /\ saves = NoSaves
        /\ mirrorTargets = {} /\ targets = {} /\ kept = {}
        /\ missed = TRUE /\ crossed = FALSE /\ reread = FALSE /\ outdated = FALSE
    BY DEF BlindInit
  <1>2. CoreTyped
    <2>1. Unreadable \in MetadataFiles  BY DEF Unreadable, MetadataFiles
    <2>2. 0 \in 0..MaxRestarts  BY DEF BlindAssumption
    <2> QED
      BY <1>1, <2>1, <2>2 DEF CoreTyped, AllFree, NothingCleared, NoSaves, Writer, IsWrite, Stages
  <1>3. Wanted /\ Unloaded /\ TablesAgree
    BY <1>1 DEF Wanted, Unloaded, TablesAgree, AllFree
  <1>4. OnEngine  BY <1>1 DEF OnEngine, StartsOrRuns, AllFree, Free
  <1>5. Cleared /\ FileKept
    BY <1>1 DEF Cleared, Stale, FileKept, NothingCleared, AllFree, Free, NoSaves, Writer, Unreadable
  <1>6. Publishing
    BY NoChainIs DEF BlindInit, NoChains, Publishing, CoreIsPublished
  <1>7. backoff \in Backoffs /\ RefreshIsRetried
    BY DEF BlindInit, NoBackoff, Backoffs, RefreshIsRetried, Attempt, BlindAssumption
  <1>8. identity \in Identities /\ KeyIsSought  BY DEF BlindInit, NoIdentity, Identities, KeyIsSought
  <1>9. hook \in Hooks /\ UpdateIsMirrored
    BY DEF BlindInit, NoHook, Hooks, HookRuns, UpdateIsMirrored
  <1> QED  BY <1>2, <1>3, <1>4, <1>5, <1>6, <1>7, <1>8, <1>9 DEF BlindInv, Core

LEMMA BlindStep ==
  ASSUME BlindAssumption, BlindInv, [BlindNext]_blindVars
  PROVE  BlindInv'
  BY CoreKeeps, PublishingKeeps, BackoffKeeps, KeyKeeps, HookKeeps DEF BlindInv

LEMMA BlindHolds ==
  ASSUME BlindAssumption, BlindInv
  PROVE  MirrorsKeep /\ BlindTypeOK
  <1>1. RunsAsWanted  BY DEF RunsAsWanted, BlindInv, Core, Wanted
  <1>2. RunsOnEngine  BY DEF RunsOnEngine, BlindInv, Core, OnEngine, StartsOrRuns
  <1>3. ClearingClears
    <2> SUFFICES ASSUME \A k \in Handler : handler[k] # "clearing"
                 PROVE  mirrorTargets \cup targets \subseteq kept
      BY DEF ClearingClears
    <2>1. Stale = {}  BY DEF Stale, BlindInv, Core, Cleared
    <2> QED  BY <2>1 DEF BlindInv, Core, Cleared
  <1>4. FileIsTables
    <2>1. DOMAIN saves = Writer /\ dirty \in BOOLEAN  BY DEF BlindInv, Core, CoreTyped
    <2> QED  BY <2>1 DEF FileIsTables, BlindInv, Core, FileKept, Writer
  <1>5. BlindTypeOK
    <2>1. \A s \in Writer : saves[s] \in [at : {"none", "mkdir"}] \cup [at : {"write"}, held : SUBSET Key]
      <3> TAKE s \in Writer
      <3>1. IsWrite(saves[s])  BY DEF BlindInv, Core, CoreTyped
      <3>2. NoSave \in [at : {"none", "mkdir"}] /\ [at |-> "mkdir"] \in [at : {"none", "mkdir"}]
        BY DEF NoSave
      <3> QED  BY <3>1, <3>2 DEF IsWrite, Writing
    <2>2. saves \in [Writer -> [at : {"none", "mkdir"}] \cup [at : {"write"}, held : SUBSET Key]]
      BY <2>1 DEF BlindInv, Core, CoreTyped
    <2>3. chains \in [Chain -> ChainRecords]  BY DEF BlindInv, Publishing, ChainsOf
    <2>4. owed \in BOOLEAN /\ retryHandle \in Chain \cup {"none"}  BY DEF BlindInv, Publishing
    <2> QED
      BY <2>2, <2>3, <2>4 DEF BlindTypeOK, BlindInv, Core, CoreTyped, Writer, Stages, MetadataFiles, Backoffs,
         ChainRecords, Identities, Hooks, HookRuns
  <1> QED  BY <1>1, <1>2, <1>3, <1>4, <1>5 DEF MirrorsKeep, BlindInv, Core, Publishing

(* Whatever handlers start, stop, clear and save together, crash or are    *)
(* refused: the blind peering manager runs as its settings say, its tables *)
(* and its file agree, a refresh, a publication and an update that is owed *)
(* is tried again, and the key of the own blind peer is announced or       *)
(* looked for (blind-peering-manager.mjs).                                 *)
THEOREM MirrorsKept ==
  ASSUME BlindAssumption
  PROVE  BlindSpec => []MirrorsKeep
  <1>1. BlindInit => BlindInv  BY BlindStart
  <1>2. BlindInv /\ [BlindNext]_blindVars => BlindInv'  BY BlindStep
  <1>3. BlindInv => MirrorsKeep  BY BlindHolds
  <1> QED  BY <1>1, <1>2, <1>3, PTL DEF BlindSpec

-----------------------------------------------------------------------------
(* Together                                                                *)

(* Every variable of every service has its type, always, whatever the      *)
(* others do: they share none (EventServices).                             *)
THEOREM ServicesTyped ==
  ASSUME ServiceConstants
  PROVE  ServicesSpec => []ProcessorTypeOK
  <1>1. EventAssumption /\ ThreadAssumption /\ InviteAssumption /\ BlindAssumption
    BY DEF ServiceConstants
  <1>2. Spec => []TypeOK  BY TypeCorrect
  <1>3. ReplaySpec => []ReplayTypeOK
    <2>1. ReplayInit => ReplayInv  BY <1>1, ReplayStarts
    <2>2. ReplayInv /\ [ReplayNext]_replayVars => ReplayInv'  BY <1>1, ReplaySteps
    <2>3. ReplayInv => ReplayTypeOK  BY <1>1, ReplayTypes
    <2> QED  BY <2>1, <2>2, <2>3, PTL DEF ReplaySpec
  <1>4. ThreadSpec => []ThreadTypeOK
    <2>1. ThreadInit => ThreadInv  BY <1>1, ThreadStart
    <2>2. ThreadInv /\ [ThreadNext]_threadVars => ThreadInv'  BY <1>1, ThreadStep
    <2>3. ThreadInv => ThreadTypeOK  BY <1>1, ThreadsHold
    <2> QED  BY <2>1, <2>2, <2>3, PTL DEF ThreadSpec
  <1>5. InviteSpec => []InviteTypeOK
    <2>1. InviteInit => InviteInv  BY <1>1, InviteStart
    <2>2. InviteInv /\ [InviteNext]_inviteVars => InviteInv'  BY <1>1, InviteStep
    <2>3. InviteInv => InviteTypeOK  BY <1>1, InvitesHold
    <2> QED  BY <2>1, <2>2, <2>3, PTL DEF InviteSpec
  <1>6. BlindSpec => []BlindTypeOK
    <2>1. BlindInit => BlindInv  BY <1>1, BlindStart
    <2>2. BlindInv /\ [BlindNext]_blindVars => BlindInv'  BY <1>1, BlindStep
    <2>3. BlindInv => BlindTypeOK  BY <1>1, BlindHolds
    <2> QED  BY <2>1, <2>2, <2>3, PTL DEF BlindSpec
  <1>7. TypeOK /\ ReplayTypeOK /\ ThreadTypeOK /\ InviteTypeOK /\ BlindTypeOK => ProcessorTypeOK
    BY DEF ProcessorTypeOK
  <1> QED  BY <1>2, <1>3, <1>4, <1>5, <1>6, <1>7, PTL DEF ServicesSpec
=============================================================================
