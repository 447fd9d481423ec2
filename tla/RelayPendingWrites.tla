-------------------------- MODULE RelayPendingWrites --------------------------
(***************************************************************************)
(* What NostrRelay (hyperpipe-relay-event-processor.mjs) does with REQs    *)
(* and events that arrive while the relay has no writer: two bounded       *)
(* buffers, each flushed by a one second timer and by Autobase's           *)
(* 'writable' event, one flush at a time.                                  *)
(*                                                                         *)
(* The two buffers run the same code on different entries, so they are two *)
(* values of Buffer here.  They differ in what publishing does: an event   *)
(* is checked for a writer, verified and appended; a REQ reads the stored  *)
(* snapshot, waits in the write queue of its connection, and is checked    *)
(* for a writer when its task runs.  A flush awaits the publication it     *)
(* started, and the entry may come back to the buffer.  Every entry is     *)
(* submitted once; the REQs of a connection are for one subscription id.   *)
(* What a REQ does to the snapshots is in RelaySubscriptions.              *)
(***************************************************************************)
EXTENDS Integers, Sequences, FiniteSets

CONSTANTS
    Req,    \* REQ messages
    Conn,   \* connections
    ConnOf, \* the connection of a REQ
    Ev,     \* events
    Valid,  \* the events whose signature verifies
    MaxPending,    \* pendingSubscriptionMax, pendingEventMax
    None

Entries == Req \cup Ev
Buffer == {"req", "event"}

ASSUME EntriesAssumption ==
    /\ Req \cap Ev = {} /\ Valid \subseteq Ev /\ None \notin Req \cup Ev
    /\ ConnOf \in [Req -> Conn]
ASSUME MaxAssumption == MaxPending \in Nat \ {0}

VARIABLES
    writable,  \* Autobase has a local writer
    announce,  \* a 'writable' event is about to be emitted
    pending,   \* [Buffer -> Seq(Entries)]
    timer,     \* pending...FlushScheduled: the timer is armed
    hand,      \* the entry a running flush awaits; None: no flush is active
    stage,     \* [Entries -> Stage]
    tasks,     \* [Conn -> Seq(Req)], the write queue of a connection
    buffered   \* history: entries that were buffered at least once

vars == <<writable, announce, pending, timer, hand, stage, tasks, buffered>>

\* "reading": a REQ reads the snapshot.  "called": it is in the write queue.
\* "verifying": an event found no writer.  "writing": found one, will append.
Stage == {"new", "reading", "called", "verifying", "writing", "pending",
          "written", "failed", "rejected", "dropped"}

BufferOf(e) == IF e \in Req THEN "req" ELSE "event"

-----------------------------------------------------------------------------
(* The flush loop *)

\* What publishing e does before its first await, a writer being there.
Started(e) == IF e \in Req THEN "reading" ELSE "writing"

\* A variant of the definition below, as a careless change would leave it; the
\* properties tell it from the code.  So with every "...Variant".
SpliceVariant(p, t, s) ==
    IF writable /\ p # <<>> THEN <<Tail(p), t, SubSeq(p, 1, 1), [s EXCEPT ![Head(p)] = Started(Head(p))]>>
    ELSE <<p, t \/ p # <<>>, None, s>>

\* The loop runs on without awaiting until it takes an entry or ends.  From a
\* buffer, its timer and the stages: the new ones, with the entry in hand.
Loop(p, t, s) ==
    IF writable /\ p # <<>> THEN <<Tail(p), t, Head(p), [s EXCEPT ![Head(p)] = Started(Head(p))]>>
    ELSE <<p, t \/ p # <<>>, None, s>>

Resume(b, p, t, s) ==
    LET r == Loop(p, t, s) IN
    /\ pending' = [pending EXCEPT ![b] = r[1]] /\ timer' = [timer EXCEPT ![b] = r[2]]
    /\ hand' = [hand EXCEPT ![b] = r[3]] /\ stage' = r[4]

\* A flush does nothing without a writer, while another one is active, or when
\* there is nothing to do; it does not arm the timer again then.
MayFlush(b) == writable /\ hand[b] = None /\ pending[b] # <<>>

-----------------------------------------------------------------------------
(* Publishing *)

GrowVariant(p, e) == Append(p, e)

\* The oldest entry makes room.
Buffered(p, e) == Append(IF Len(p) >= MaxPending THEN Tail(p) ELSE p, e)

Restaged(p, e) ==
    IF Len(p) >= MaxPending THEN [stage EXCEPT ![Head(p)] = "dropped", ![e] = "pending"]
    ELSE [stage EXCEPT ![e] = "pending"]

ForgetFlushVariant(e, final) ==
    stage' = [stage EXCEPT ![e] = final] /\ UNCHANGED <<pending, timer, hand>>

\* The publication of e ends in a final stage; if a flush awaited it, the flush
\* goes on.
Settle(e, final) ==
    LET b == BufferOf(e) IN
    IF hand[b] = e THEN Resume(b, pending[b], timer[b], [stage EXCEPT ![e] = final])
    ELSE stage' = [stage EXCEPT ![e] = final] /\ UNCHANGED <<pending, timer, hand>>

NoTimerVariant(e) ==
    LET b == BufferOf(e) IN
    /\ buffered' = buffered \cup {e}
    /\ pending' = [pending EXCEPT ![b] = Buffered(@, e)] /\ stage' = Restaged(pending[b], e)
    /\ hand' = [hand EXCEPT ![b] = IF @ = e THEN None ELSE @] /\ UNCHANGED timer

\* The publication of e ends with e in the buffer and the timer armed.
Hold(e) ==
    LET b == BufferOf(e)
        p == Buffered(pending[b], e)
        s == Restaged(pending[b], e)
    IN  /\ buffered' = buffered \cup {e}
        /\ IF hand[b] = e THEN Resume(b, p, TRUE, s)
           ELSE /\ pending' = [pending EXCEPT ![b] = p] /\ timer' = [timer EXCEPT ![b] = TRUE]
                /\ stage' = s /\ UNCHANGED hand

\* A REQ reads first; publishEvent looks for a writer at once.
Submit(e) ==
    /\ stage[e] = "new"
    /\ stage' = [stage EXCEPT ![e] = IF e \in Req \/ writable THEN Started(e) ELSE "verifying"]
    /\ UNCHANGED <<writable, announce, pending, timer, hand, tasks, buffered>>

Call(e) ==
    /\ stage[e] = "reading"
    /\ stage' = [stage EXCEPT ![e] = "called"]
    /\ tasks' = [tasks EXCEPT ![ConnOf[e]] = Append(@, e)]
    /\ UNCHANGED <<writable, announce, pending, timer, hand, buffered>>

Runs(e) == tasks[ConnOf[e]] # <<>> /\ Head(tasks[ConnOf[e]]) = e
LeaveQueue(e) == tasks' = IF e \in Req THEN [tasks EXCEPT ![ConnOf[e]] = Tail(@)] ELSE tasks

\* The task of a REQ: go on to write, or be buffered.
FindWriter(e) ==
    /\ stage[e] = "called" /\ Runs(e) /\ writable
    /\ stage' = [stage EXCEPT ![e] = "writing"]
    /\ UNCHANGED <<writable, announce, pending, timer, hand, tasks, buffered>>

FindNoWriter(e) ==
    /\ stage[e] = "called" /\ Runs(e) /\ ~writable
    /\ Hold(e) /\ LeaveQueue(e)
    /\ UNCHANGED <<writable, announce>>

\* publishEvent without a writer: verify, then buffer, writer or not by then.
Verify(e) ==
    /\ stage[e] = "verifying"
    /\ IF e \in Valid THEN Hold(e) ELSE Settle(e, "rejected") /\ UNCHANGED buffered
    /\ UNCHANGED <<writable, announce, tasks>>

Write(e) ==
    /\ stage[e] = "writing" /\ writable /\ e \in Req \cup Valid
    /\ Settle(e, "written") /\ LeaveQueue(e)
    /\ UNCHANGED <<writable, announce, buffered>>

\* The append fails, or the event does not verify.
WriteFails(e) ==
    /\ stage[e] = "writing"
    /\ Settle(e, IF e \in Req \cup Valid THEN "failed" ELSE "rejected") /\ LeaveQueue(e)
    /\ UNCHANGED <<writable, announce, buffered>>

-----------------------------------------------------------------------------
(* Timer and 'writable' *)

Timer(b) ==
    /\ timer[b]
    /\ IF MayFlush(b) THEN Resume(b, pending[b], FALSE, stage)
       ELSE timer' = [timer EXCEPT ![b] = FALSE] /\ UNCHANGED <<pending, hand, stage>>
    /\ UNCHANGED <<writable, announce, tasks, buffered>>

GainWriter ==
    /\ ~writable
    /\ writable' = TRUE /\ announce' = TRUE
    /\ UNCHANGED <<pending, timer, hand, stage, tasks, buffered>>

LoseWriter ==
    /\ writable
    /\ writable' = FALSE
    /\ UNCHANGED <<announce, pending, timer, hand, stage, tasks, buffered>>

\* The handler of 'writable' starts both flushes.
Writable ==
    LET taken == {Head(pending[b]) : b \in {c \in Buffer : MayFlush(c)}} IN
    /\ announce
    /\ announce' = FALSE
    /\ pending' = [b \in Buffer |-> IF MayFlush(b) THEN Tail(pending[b]) ELSE pending[b]]
    /\ hand' = [b \in Buffer |-> IF MayFlush(b) THEN Head(pending[b]) ELSE hand[b]]
    /\ stage' = [e \in Entries |-> IF e \in taken THEN Started(e) ELSE stage[e]]
    /\ UNCHANGED <<writable, timer, tasks, buffered>>

Init ==
    /\ writable \in BOOLEAN /\ announce = FALSE
    /\ pending = [b \in Buffer |-> <<>>]
    /\ timer = [b \in Buffer |-> FALSE] /\ hand = [b \in Buffer |-> None]
    /\ stage = [e \in Entries |-> "new"]
    /\ tasks = [c \in Conn |-> <<>>]
    /\ buffered = {}

Publish(e) == Call(e) \/ FindWriter(e) \/ FindNoWriter(e) \/ Verify(e) \/ Write(e) \/ WriteFails(e)

Next ==
    \/ \E e \in Entries : Submit(e) \/ Publish(e)
    \/ \E b \in Buffer : Timer(b)
    \/ GainWriter \/ LoseWriter \/ Writable

Spec == Init /\ [][Next]_vars

\* Promises settle, timers fire and a pending event is emitted.
FairSpec ==
    /\ Spec
    /\ \A e \in Entries : WF_vars(Publish(e))
    /\ \A b \in Buffer : WF_vars(Timer(b))
    /\ WF_vars(Writable)

-----------------------------------------------------------------------------
(* Properties *)

Elements(s) == {s[i] : i \in DOMAIN s}
Distinct(s) == \A i, j \in DOMAIN s : s[i] = s[j] => i = j

TypeOK ==
    /\ writable \in BOOLEAN /\ announce \in BOOLEAN
    /\ pending \in [Buffer -> Seq(Entries)]
    /\ timer \in [Buffer -> BOOLEAN] /\ hand \in [Buffer -> Entries \cup {None}]
    /\ stage \in [Entries -> Stage]
    /\ tasks \in [Conn -> Seq(Req)]
    /\ buffered \subseteq Entries

\* An entry is in its buffer, once, exactly as long as its publication says so,
\* and a buffer never outgrows its bound, however flushes, re-buffering by a
\* flush and overflow interleave; a flush awaits a publication under way.
Accounted ==
    /\ \A b \in Buffer : Distinct(pending[b]) /\ Len(pending[b]) <= MaxPending
    /\ \A b \in Buffer : Elements(pending[b]) =
                           {e \in Entries : stage[e] = "pending" /\ BufferOf(e) = b}
    /\ \A b \in Buffer : hand[b] # None =>
         BufferOf(hand[b]) = b /\ stage[hand[b]] \in {"reading", "called", "writing"}

\* While the relay can write, a buffer that holds something has a flush
\* running, a timer armed or a 'writable' event on its way: a timer that fired
\* in vain, a flush that stopped half way and an event verified after the
\* 'writable' event strand nothing.
NeverStranded ==
    \A b \in Buffer : (writable /\ pending[b] # <<>>)
        => hand[b] # None \/ timer[b] \/ announce

\* An entry that waits for a writer is neither lost nor left behind.
BuffersKeep == Accounted /\ NeverStranded

\* Once the relay stays writable every buffer drains.
Drains == \A b \in Buffer : <>[]writable => <>[](pending[b] = <<>>)

\* "pendingEventWrites: flushed entry" (line 320) is logged, and the entry is
\* gone, when publishEvent has returned: the event is in the log by then.
FlushedIsWritten == \A e \in Valid \cap buffered : stage[e] # "failed"
=============================================================================
