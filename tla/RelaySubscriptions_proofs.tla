---------------------- MODULE RelaySubscriptions_proofs ----------------------
(***************************************************************************)
(* Proofs about RelaySubscriptions, for any number of connections, clients,*)
(* subscriptions, events and concurrent handlers.                          *)
(*                                                                         *)
(* NoGap is not inductive: a handler carries copies of snapshots, which it *)
(* later merges into the stored ones.  The invariant says of every copy    *)
(* what NoGap says of the stored snapshots, and that no cursor is ahead of *)
(* the log, so that an event that arrives in order is newer than all of    *)
(* them.                                                                   *)
(***************************************************************************)
EXTENDS RelaySubscriptions, SequenceTheorems, TLAPS

\* An entry the client may have for s, given the events L in the view, those
\* of T that came out of order, and the responses R.
EntryOK(n, s, k, L, T, R) ==
    /\ n \in Entry /\ n.filter \in ReqFilters[s]
    /\ n.cursor = 0 \/ \E e \in L : n.cursor <= Stamp[e]
    /\ s \in Stable => \A e \in (L \ T) \cap Matches[n.filter] :
                         Stamp[e] <= n.cursor => <<k, s, e>> \in R

SnapOK(x, k, L, T, R) ==
    /\ x \in Snapshot
    /\ \A s \in Sub : x[s] # None => EntryOK(x[s], s, k, L, T, R)

LEMMA CursorNat == Cursor \subseteq Nat
  BY ConstantsAssumption DEF Cursor

LEMMA EmptyOK == \A k, L, T, R : SnapOK(Empty, k, L, T, R)
  BY DEF SnapOK, Empty, Snapshot

\* Dropping entries, which is all that pruning, filtering and compacting do.
LEMMA SubSnapOK ==
    ASSUME NEW x, NEW y, NEW k, NEW L, NEW T, NEW R, SnapOK(x, k, L, T, R),
           y \in Snapshot, \A s \in Sub : y[s] \in {x[s], None}
    PROVE  SnapOK(y, k, L, T, R)
  BY DEF SnapOK

LEMMA WithoutOK ==
    ASSUME NEW x, NEW gone, NEW k, NEW L, NEW T, NEW R, SnapOK(x, k, L, T, R)
    PROVE  SnapOK(Without(x, gone), k, L, T, R)
  <1>1. Without(x, gone) \in Snapshot  BY DEF Without, Snapshot, SnapOK
  <1>2. \A s \in Sub : Without(x, gone)[s] \in {x[s], None}  BY DEF Without
  <1> QED  BY <1>1, <1>2, SubSnapOK

LEMMA PrunedIsWithout ==
    ASSUME NEW x, NEW p, NEW y \in Pruned(x, p)
    PROVE  \E gone : gone \subseteq Timeline /\ y = Without(x, gone)
  BY DEF Pruned

LEMMA PrunedOK ==
    ASSUME NEW x, NEW p, NEW y \in Pruned(x, p), NEW k, NEW L, NEW T, NEW R,
           SnapOK(x, k, L, T, R)
    PROVE  SnapOK(y, k, L, T, R)
  BY PrunedIsWithout, WithoutOK

LEMMA CompactedOK ==
    ASSUME NEW x, NEW y \in Compacted(x), NEW k, NEW L, NEW T, NEW R, SnapOK(x, k, L, T, R)
    PROVE  SnapOK(y, k, L, T, R)
  BY WithoutOK, PrunedOK DEF Compacted

LEMMA ResetOK ==
    ASSUME NEW x, NEW k, NEW L, NEW T, NEW R, SnapOK(x, k, L, T, R), L \subseteq Event
    PROVE  SnapOK(Reset(x), k, L, T, R)
  <1>1. Reset(x) \in Snapshot  BY DEF Reset, Snapshot, SnapOK, Entry, Cursor
  <1>2. ASSUME NEW s \in Sub, Reset(x)[s] # None  PROVE EntryOK(Reset(x)[s], s, k, L, T, R)
    <2>1. x[s] # None /\ Reset(x)[s] = [filter |-> x[s].filter, cursor |-> 0]  BY <1>2 DEF Reset
    <2>2. x[s] \in Entry  BY <2>1 DEF SnapOK, Snapshot
    <2>3. \A e \in L : ~(Stamp[e] <= 0)  BY ConstantsAssumption
    <2> QED  BY <2>1, <2>2, <2>3 DEF SnapOK, EntryOK, Entry, Cursor
  <1> QED  BY <1>1, <1>2 DEF SnapOK

\* What two handlers know merges into what both know: the larger cursor was
\* reached by one of them, under the same filter when the id is stable.
LEMMA MergeOK ==
    ASSUME NEW x, NEW y, NEW k, NEW L, NEW T, NEW R,
           SnapOK(x, k, L, T, R), SnapOK(y, k, L, T, R)
    PROVE  SnapOK(Merge(x, y), k, L, T, R)
  <1>1. ASSUME NEW s \in Sub, x[s] # None, y[s] # None
        PROVE  EntryOK(MergeEntry(x[s], y[s]), s, k, L, T, R)
    <2>1. EntryOK(x[s], s, k, L, T, R) /\ EntryOK(y[s], s, k, L, T, R)  BY <1>1 DEF SnapOK
    <2>2. MergeEntry(x[s], y[s]) \in Entry  BY <2>1 DEF EntryOK, Entry, MergeEntry
    <2>3. MergeEntry(x[s], y[s]).cursor \in {x[s].cursor, y[s].cursor}
          /\ MergeEntry(x[s], y[s]).filter = y[s].filter
      BY DEF MergeEntry
    <2>4. s \in Stable => x[s].filter = y[s].filter  BY <2>1 DEF EntryOK, Stable
    <2> QED  BY <2>1, <2>2, <2>3, <2>4 DEF EntryOK
  <1>2. Merge(x, y) \in Snapshot
    BY <1>1 DEF Merge, Snapshot, SnapOK, EntryOK
  <1>3. ASSUME NEW s \in Sub, Merge(x, y)[s] # None
        PROVE  EntryOK(Merge(x, y)[s], s, k, L, T, R)
    BY <1>1, <1>3 DEF Merge, SnapOK
  <1> QED  BY <1>2, <1>3 DEF SnapOK

LEMMA ReturnedMoreOK ==
    ASSUME NEW x, NEW k, NEW L, NEW T, NEW R, NEW R2, SnapOK(x, k, L, T, R), R \subseteq R2
    PROVE  SnapOK(x, k, L, T, R2)
  BY DEF SnapOK, EntryOK

\* An event newer than the whole log is newer than every cursor.
LEMMA ArrivalOK ==
    ASSUME NEW x, NEW k, NEW L, NEW T, NEW R, NEW e \in Event, SnapOK(x, k, L, T, R),
           L \subseteq Event,
           NEW T2, T \subseteq T2, e \in T2 \/ \A d \in L : ~(Stamp[d] >= Stamp[e])
    PROVE  SnapOK(x, k, L \cup {e}, T2, R)
  <1>1. ASSUME NEW s \in Sub, x[s] # None
        PROVE  EntryOK(x[s], s, k, L \cup {e}, T2, R)
    <2>1. EntryOK(x[s], s, k, L, T, R)  BY <1>1 DEF SnapOK
    <2>2. x[s].cursor \in Nat  BY <2>1, CursorNat DEF EntryOK, Entry
    <2>3. Stamp \in [Event -> Nat \ {0}]  BY ConstantsAssumption
    <2>4. e \notin T2 => ~(Stamp[e] <= x[s].cursor)
      BY <2>1, <2>2, <2>3 DEF EntryOK
    <2> QED  BY <2>1, <2>4 DEF EntryOK
  <1> QED  BY <1>1 DEF SnapOK

-----------------------------------------------------------------------------
(* What a handler carries *)

Closing == {"closeTask", "closeRead", "closeWrite"}

JobOK(j, L, T, R) ==
    /\ j \in Job
    /\ j.pc # "idle" => j.conn \in Conn
    /\ j.pc = "reqTask" => j.sub \in Sub /\ j.filter \in ReqFilters[j.sub]
    /\ j.pc \in Closing => j.sub \in Sub
    /\ j.pc = "query" => j.todo \subseteq Present(j.snap)
    /\ SnapOK(j.snap, ClientOf[j.conn], L, T, R) /\ SnapOK(j.read, ClientOf[j.conn], L, T, R)

LEMMA IdleJob == Idle \in Job
  BY EmptyOK DEF Idle, Job, Stage, SnapOK

LEMMA IdleOK == \A L, T, R : JobOK(Idle, L, T, R)
  BY IdleJob, EmptyOK DEF JobOK, Idle, Closing

\* A handler that begins on connection c with a snapshot it just read.
LEMMA BeginOK ==
    ASSUME NEW c \in Conn, NEW x, NEW L, NEW T, NEW R, SnapOK(x, ClientOf[c], L, T, R),
           NEW stage \in Stage \ ({"reqTask", "query"} \cup Closing)
    PROVE  JobOK(Begin(stage, c, x), L, T, R)
  <1>1. Begin(stage, c, x) \in Job  BY EmptyOK DEF Begin, Idle, Job, SnapOK
  <1> QED  BY <1>1, EmptyOK DEF JobOK, Begin, Idle

\* A handler that moves on keeps what it carries.
LEMMA StageOK ==
    ASSUME NEW j, NEW L, NEW T, NEW R, JobOK(j, L, T, R), j.pc # "idle",
           NEW stage \in Stage \ {"reqTask", "query"}, stage \in Closing => j.pc \in Closing
    PROVE  JobOK([j EXCEPT !.pc = stage], L, T, R)
  <1>1. [j EXCEPT !.pc = stage] \in Job  BY DEF JobOK, Job
  <1> QED  BY <1>1 DEF JobOK, Job

LEMMA SnapStageOK ==
    ASSUME NEW j, NEW L, NEW T, NEW R, JobOK(j, L, T, R), j.pc # "idle",
           NEW stage \in Stage \ ({"reqTask", "query"} \cup Closing),
           NEW x, SnapOK(x, ClientOf[j.conn], L, T, R)
    PROVE  JobOK([j EXCEPT !.pc = stage, !.snap = x], L, T, R)
  <1>1. [j EXCEPT !.pc = stage, !.snap = x] \in Job  BY DEF JobOK, Job, SnapOK
  <1> QED  BY <1>1 DEF JobOK, Job

LEMMA ReadStageOK ==
    ASSUME NEW j, NEW L, NEW T, NEW R, JobOK(j, L, T, R), j.pc # "idle",
           NEW stage \in Stage \ {"reqTask", "query"}, stage \in Closing => j.pc \in Closing,
           NEW x, SnapOK(x, ClientOf[j.conn], L, T, R)
    PROVE  JobOK([j EXCEPT !.pc = stage, !.read = x], L, T, R)
  <1>1. [j EXCEPT !.pc = stage, !.read = x] \in Job  BY DEF JobOK, Job, SnapOK
  <1> QED  BY <1>1 DEF JobOK, Job

LEMMA RequestedOK ==
    ASSUME NEW jobs, NEW c, NEW s, NEW L, NEW T, NEW R,
           \A g \in Handler : JobOK(jobs[g], L, T, R)
    PROVE  /\ Requested(jobs, c, s) \in [Handler -> Job]
           /\ \A g \in Handler : JobOK(Requested(jobs, c, s)[g], L, T, R)
  <1>1. ASSUME NEW g \in Handler
        PROVE  LET j == [jobs[g] EXCEPT !.seen = @ \ {s}]
               IN  j \in Job /\ JobOK(j, L, T, R)
    <2>1. [jobs[g] EXCEPT !.seen = @ \ {s}] \in Job  BY DEF JobOK, Job
    <2> QED  BY <2>1 DEF JobOK, Job
  <1>2. ASSUME NEW g \in Handler
        PROVE  Requested(jobs, c, s)[g] \in Job /\ JobOK(Requested(jobs, c, s)[g], L, T, R)
    BY <1>1 DEF Requested, JobOK
  <1>3. Requested(jobs, c, s) = [g \in Handler |-> Requested(jobs, c, s)[g]]  BY DEF Requested
  <1> QED  BY <1>2, <1>3

-----------------------------------------------------------------------------
(* The inductive invariant *)

MapOK == \A k \in Client : connOf[k] # None => ClientOf[connOf[k]] = k
JobsOK == \A h \in Handler : JobOK(job[h], log, late, returned)
ConnsOK == \A c \in Conn : SnapOK(conn[c], ClientOf[c], log, late, returned)
ClientsOK == \A k \in Client : SnapOK(client[k], k, log, late, returned)
IInv == TypeOK /\ MapOK /\ JobsOK /\ ConnsOK /\ ClientsOK

LEMMA InitInv == Init => IInv
  <1> SUFFICES ASSUME Init  PROVE IInv
    OBVIOUS
  <1>1. TypeOK  BY IdleJob, EmptyOK DEF Init, TypeOK, SnapOK
  <1>2. MapOK /\ JobsOK /\ ConnsOK /\ ClientsOK
    BY IdleOK, EmptyOK DEF Init, MapOK, JobsOK, ConnsOK, ClientsOK
  <1> QED  BY <1>1, <1>2 DEF IInv

\* Queues hold handlers: one is appended, or the head that holds it leaves.
LEMMA QueueOK ==
    ASSUME NEW K, NEW q \in [K -> Seq(Handler)], NEW k, NEW h \in Handler
    PROVE  /\ Enqueue(q, k, h) \in [K -> Seq(Handler)]
           /\ k \in K /\ q[k] # <<>> => Release(q, k) \in [K -> Seq(Handler)]
  <1>1. k \in K => Append(q[k], h) \in Seq(Handler)
    BY AppendProperties
  <1>2. k \in K /\ q[k] # <<>> => Tail(q[k]) \in Seq(Handler)
    BY HeadTailProperties
  <1> QED  BY <1>1, <1>2 DEF Enqueue, Release

LEMMA TouchOK ==
    ASSUME TypeOK, MapOK, NEW c \in Conn, Touch(c)
    PROVE  connOf' \in [Client -> Conn \cup {None}] /\ MapOK'
  <1>1. ClientOf[c] \in Client  BY ConstantsAssumption
  <1> QED  BY <1>1, ConstantsAssumption DEF TypeOK, MapOK, Touch

\* A step of one handler that leaves the events and the responses alone.
LEMMA OneJob ==
    ASSUME TypeOK, JobsOK, NEW h \in Handler, NEW j, JobOK(j, log, late, returned),
           job' = [job EXCEPT ![h] = j], UNCHANGED <<log, late, returned>>
    PROVE  job' \in [Handler -> Job] /\ JobsOK'
  BY DEF TypeOK, JobsOK, JobOK

LEMMA SameSnaps ==
    ASSUME ConnsOK, ClientsOK, UNCHANGED <<log, late, returned>>
    PROVE  /\ conn' = conn => ConnsOK'
           /\ client' = client => ClientsOK'
  BY DEF ConnsOK, ClientsOK

LEMMA ReqStartInv ==
    ASSUME IInv, NEW h \in Handler, NEW c \in Conn, NEW s \in Sub, NEW f \in Filter,
           ReqStart(h, c, s, f)
    PROVE  IInv'
  <1> DEFINE j == [Begin("reqTask", c, conn[c]) EXCEPT !.sub = s, !.filter = f]
  <1>1. JobOK(j, log, late, returned)
    <2>1. SnapOK(conn[c], ClientOf[c], log, late, returned)  BY DEF IInv, ConnsOK
    <2>2. j \in Job  BY <2>1, EmptyOK DEF Begin, Idle, Job, Stage, ConnTask, SnapOK
    <2> QED  BY <2>1, <2>2, EmptyOK DEF JobOK, Begin, Idle, ReqStart, Closing
  <1>2. job' \in [Handler -> Job] /\ JobsOK'  BY <1>1, OneJob DEF ReqStart, IInv
  <1>3. connQ' \in [Conn -> Seq(Handler)]  BY QueueOK DEF ReqStart, IInv, TypeOK
  <1>4. connOf' \in [Client -> Conn \cup {None}] /\ MapOK'  BY TouchOK DEF ReqStart, IInv
  <1>5. ConnsOK' /\ ClientsOK'  BY SameSnaps DEF ReqStart, IInv
  <1> QED  BY <1>2, <1>3, <1>4, <1>5 DEF IInv, TypeOK, ReqStart

LEMMA ReqTaskInv ==
    ASSUME IInv, NEW h \in Handler, ReqTask(h)
    PROVE  IInv'
  <1> DEFINE c == job[h].conn
             s == job[h].sub
             n == [filter |-> job[h].filter, cursor |-> 0]
             merged == [Merge(conn[c], job[h].snap) EXCEPT ![s] = n]
  <1>1. JobOK(job[h], log, late, returned) /\ job[h].pc = "reqTask" /\ HoldsConn(h)
    BY DEF IInv, JobsOK, ReqTask
  <1>2. c \in Conn /\ s \in Sub /\ job[h].filter \in ReqFilters[s] /\ job[h].filter \in Filter
    BY <1>1, ConstantsAssumption DEF JobOK
  <1>3. EntryOK(n, s, ClientOf[c], log, late, returned)
    <2>1. \A e \in log : ~(Stamp[e] <= 0)  BY ConstantsAssumption DEF IInv, TypeOK
    <2> QED  BY <1>2, <2>1 DEF EntryOK, Entry, Cursor
  <1>4. SnapOK(merged, ClientOf[c], log, late, returned)
    <2>1. SnapOK(Merge(conn[c], job[h].snap), ClientOf[c], log, late, returned)
      BY <1>1, <1>2, MergeOK DEF IInv, ConnsOK, JobOK
    <2>2. merged \in Snapshot  BY <1>3, <2>1 DEF SnapOK, EntryOK, Snapshot
    <2>3. \A r \in Sub : merged[r] = IF r = s THEN n ELSE Merge(conn[c], job[h].snap)[r]
      BY <2>1 DEF SnapOK, Snapshot
    <2> HIDE DEF merged, n
    <2> QED  BY <1>3, <2>1, <2>2, <2>3 DEF SnapOK
  <1> HIDE DEF merged
  <1>5. PICK x \in Pruned(merged, s) :
          /\ conn' = [conn EXCEPT ![c] = x]
          /\ job' = Requested(IF Named(c) THEN [job EXCEPT ![h].pc = "reqClient",
                                                          ![h].snap = FilterEphemeral(x)]
                              ELSE Goto(h, "idle"), c, s)
    BY DEF ReqTask, merged
  <1>6. SnapOK(x, ClientOf[c], log, late, returned)  BY <1>4, PrunedOK
  <1>7. job' \in [Handler -> Job] /\ JobsOK'
    <2> DEFINE j == [job[h] EXCEPT !.pc = "reqClient", !.snap = FilterEphemeral(x)]
    <2>1. SnapOK(FilterEphemeral(x), ClientOf[c], log, late, returned)
      BY <1>6, WithoutOK DEF FilterEphemeral
    <2>2. "reqClient" \in Stage \ ({"reqTask", "query"} \cup Closing)
      BY DEF Stage, ConnTask, Closing
    <2>3. JobOK(j, log, late, returned)  BY <1>1, <2>1, <2>2, SnapStageOK
    <2> HIDE DEF j
    <2>4. \A g \in Handler : JobOK([job EXCEPT ![h] = j][g], log, late, returned)
      BY <2>3 DEF IInv, TypeOK, JobsOK
    <2>5. \A g \in Handler : JobOK(Goto(h, "idle")[g], log, late, returned)
      BY IdleOK DEF IInv, TypeOK, JobsOK, Goto
    <2>6. job' = Requested(IF Named(c) THEN [job EXCEPT ![h] = j] ELSE Goto(h, "idle"), c, s)
      BY <1>5 DEF IInv, TypeOK, j
    <2>7. job' \in [Handler -> Job] /\ \A g \in Handler : JobOK(job'[g], log, late, returned)
      BY <2>4, <2>5, <2>6, RequestedOK
    <2> QED  BY <2>7 DEF ReqTask, JobsOK
  <1>8. connQ' \in [Conn -> Seq(Handler)] /\ clientQ' \in [Client -> Seq(Handler)]
    BY <1>1, <1>2, QueueOK DEF ReqTask, IInv, TypeOK, HoldsConn
  <1>9. ConnsOK' /\ conn' \in [Conn -> Snapshot]
    BY <1>2, <1>5, <1>6 DEF IInv, TypeOK, ConnsOK, ReqTask, SnapOK
  <1>10. ClientsOK' /\ MapOK'  BY SameSnaps DEF ReqTask, IInv, MapOK
  <1>11. want' \in [Conn -> [Sub -> Filter \cup {None}]]
    BY <1>2 DEF ReqTask, IInv, TypeOK
  <1> QED  BY <1>7, <1>8, <1>9, <1>10, <1>11 DEF IInv, TypeOK, ReqTask

LEMMA GotoInv ==
    ASSUME TypeOK, JobsOK, NEW h \in Handler, job[h].pc # "idle",
           NEW stage \in Stage \ {"reqTask", "query"},
           stage \in Closing => job[h].pc \in Closing,
           job' = Goto(h, stage), UNCHANGED <<log, late, returned>>
    PROVE  job' \in [Handler -> Job] /\ JobsOK'
  <1> DEFINE j == IF stage = "idle" THEN Idle ELSE [job[h] EXCEPT !.pc = stage]
  <1>1. JobOK(job[h], log, late, returned)  BY DEF JobsOK
  <1>2. JobOK(j, log, late, returned)  BY <1>1, IdleOK, StageOK
  <1>3. job' = [job EXCEPT ![h] = j]  BY DEF Goto, TypeOK
  <1> HIDE DEF j
  <1> QED  BY <1>2, <1>3, OneJob

\* A handler that is at work has a connection, and that connection a client.
LEMMA Working ==
    ASSUME IInv, NEW h \in Handler, job[h].pc # "idle"
    PROVE  /\ JobOK(job[h], log, late, returned)
           /\ job[h].conn \in Conn /\ ClientIn(h) \in Client
  BY ConstantsAssumption DEF IInv, JobsOK, JobOK, ClientIn

LEMMA CloseStartInv ==
    ASSUME IInv, NEW h \in Handler, NEW c \in Conn, NEW s \in Sub, CloseStart(h, c, s)
    PROVE  IInv'
  <1> DEFINE j == [Begin("closeTask", c, Empty) EXCEPT !.sub = s]
  <1>1. JobOK(j, log, late, returned)
    <2>1. j \in Job  BY EmptyOK DEF Begin, Idle, Job, Stage, ConnTask, SnapOK
    <2> QED  BY <2>1, EmptyOK DEF JobOK, Begin, Idle, Closing
  <1>2. job' \in [Handler -> Job] /\ JobsOK'  BY <1>1, OneJob DEF CloseStart, IInv
  <1>3. connQ' \in [Conn -> Seq(Handler)]  BY QueueOK DEF CloseStart, IInv, TypeOK
  <1>4. connOf' \in [Client -> Conn \cup {None}] /\ MapOK'  BY TouchOK DEF CloseStart, IInv
  <1>5. ConnsOK' /\ ClientsOK'  BY SameSnaps DEF CloseStart, IInv
  <1> QED  BY <1>2, <1>3, <1>4, <1>5 DEF IInv, TypeOK, CloseStart

LEMMA CloseTaskInv ==
    ASSUME IInv, NEW h \in Handler, CloseTask(h)
    PROVE  IInv'
  <1> DEFINE c == job[h].conn
             s == job[h].sub
  <1>1. JobOK(job[h], log, late, returned) /\ c \in Conn /\ s \in Sub
    BY Working DEF CloseTask, JobOK, Closing
  <1>2. PICK x : /\ conn' = [conn EXCEPT ![c] = x]
                 /\ x = conn[c] \/ x \in Pruned(Without(conn[c], {s}), None)
    BY DEF CloseTask
  <1>3. SnapOK(x, ClientOf[c], log, late, returned)
    BY <1>1, <1>2, WithoutOK, PrunedOK DEF IInv, ConnsOK
  <1>4. job' \in [Handler -> Job] /\ JobsOK'
    <2>1. \A stage \in {"closeRead", "idle"} :
            stage \in Stage \ {"reqTask", "query"} /\ job[h].pc \in Closing /\ job[h].pc # "idle"
      BY DEF Stage, ConnTask, CloseTask, Closing
    <2> QED  BY <2>1, GotoInv DEF CloseTask, IInv
  <1>5. connQ' \in [Conn -> Seq(Handler)]
    BY <1>1, QueueOK DEF CloseTask, IInv, TypeOK, HoldsConn
  <1>6. ConnsOK' /\ conn' \in [Conn -> Snapshot]
    BY <1>1, <1>2, <1>3 DEF IInv, TypeOK, ConnsOK, CloseTask, SnapOK
  <1>7. ClientsOK' /\ MapOK'  BY SameSnaps DEF CloseTask, IInv, MapOK
  <1> QED  BY <1>1, <1>4, <1>5, <1>6, <1>7 DEF IInv, TypeOK, CloseTask

LEMMA CloseReadClientInv ==
    ASSUME IInv, NEW h \in Handler, CloseReadClient(h)
    PROVE  IInv'
  <1> DEFINE k == ClientOf[job[h].conn]
             j == [job[h] EXCEPT !.pc = "closeWrite", !.read = client[k]]
  <1>1. JobOK(job[h], log, late, returned) /\ job[h].conn \in Conn /\ k \in Client
    BY Working DEF CloseReadClient, ClientIn
  <1>2. job' \in [Handler -> Job] /\ JobsOK'
    <2>1. "closeWrite" \in Stage \ {"reqTask", "query"} /\ "idle" \in Stage \ {"reqTask", "query"}
          /\ job[h].pc \in Closing /\ job[h].pc # "idle" /\ "idle" \notin Closing
      BY DEF Stage, ConnTask, CloseReadClient, Closing
    <2>2. JobOK(j, log, late, returned)  BY <1>1, <2>1, ReadStageOK DEF IInv, ClientsOK
    <2>3. job' = [job EXCEPT ![h] = j] \/ job' = Goto(h, "idle")
      BY DEF CloseReadClient, IInv, TypeOK
    <2> HIDE DEF j
    <2> QED  BY <2>1, <2>2, <2>3, OneJob, GotoInv DEF CloseReadClient, IInv
  <1>3. connQ' \in [Conn -> Seq(Handler)]
    BY <1>1, QueueOK DEF CloseReadClient, IInv, TypeOK, HoldsConn
  <1>4. ConnsOK' /\ ClientsOK' /\ MapOK'  BY SameSnaps DEF CloseReadClient, IInv, MapOK
  <1> QED  BY <1>2, <1>3, <1>4 DEF IInv, TypeOK, CloseReadClient

LEMMA CloseWriteClientInv ==
    ASSUME IInv, NEW h \in Handler, CloseWriteClient(h)
    PROVE  IInv'
  <1> DEFINE k == ClientOf[job[h].conn]
  <1>1. JobOK(job[h], log, late, returned) /\ job[h].conn \in Conn /\ k \in Client
    BY Working DEF CloseWriteClient, ClientIn
  <1>2. PICK x \in Pruned(FilterEphemeral(Without(job[h].read, {job[h].sub})), None) :
          client' = [client EXCEPT ![k] = x]
    BY DEF CloseWriteClient
  <1>3. SnapOK(x, k, log, late, returned)
    BY <1>1, <1>2, WithoutOK, PrunedOK DEF JobOK, FilterEphemeral
  <1>4. job' \in [Handler -> Job] /\ JobsOK'
    <2>1. "idle" \in Stage \ {"reqTask", "query"} /\ "idle" \notin Closing /\ job[h].pc # "idle"
      BY DEF Stage, CloseWriteClient, Closing
    <2> QED  BY <2>1, GotoInv DEF CloseWriteClient, IInv
  <1>5. connQ' \in [Conn -> Seq(Handler)]
    BY <1>1, QueueOK DEF CloseWriteClient, IInv, TypeOK, HoldsConn
  <1>6. ClientsOK' /\ client' \in [Client -> Snapshot]
    BY <1>1, <1>2, <1>3 DEF IInv, TypeOK, ClientsOK, CloseWriteClient, SnapOK
  <1>7. ConnsOK' /\ MapOK'  BY SameSnaps DEF CloseWriteClient, IInv, MapOK
  <1> QED  BY <1>4, <1>5, <1>6, <1>7 DEF IInv, TypeOK, CloseWriteClient

LEMMA PollStartInv ==
    ASSUME IInv, NEW h \in Handler, NEW c \in Conn, PollStart(h, c)
    PROVE  IInv'
  <1> DEFINE prev == connOf[ClientOf[c]]
             rehydrate == Named(c) /\ prev \notin {None, c} /\ Present(conn[prev]) # {}
             j == IF rehydrate THEN Begin("rehTask", c, conn[prev])
                  ELSE Begin(IF Named(c) THEN "mergeRead" ELSE "poll", c, Empty)
  <1>1. JobOK(j, log, late, returned)
    <2>1. {"rehTask", "mergeRead", "poll"} \subseteq Stage \ ({"reqTask", "query"} \cup Closing)
      BY DEF Stage, ConnTask, UpdateTask, Closing
    <2>2. rehydrate => SnapOK(conn[prev], ClientOf[c], log, late, returned)
      BY ConstantsAssumption DEF IInv, TypeOK, MapOK, ConnsOK
    <2>3. rehydrate => JobOK(Begin("rehTask", c, conn[prev]), log, late, returned)
      BY <2>1, <2>2, BeginOK
    <2>4. \A stage \in {"mergeRead", "poll"} : JobOK(Begin(stage, c, Empty), log, late, returned)
      BY <2>1, EmptyOK, BeginOK
    <2> QED  BY <2>3, <2>4
  <1>2. job' \in [Handler -> Job] /\ JobsOK'
    <2>1. job' = [job EXCEPT ![h] = j]  BY DEF PollStart
    <2> HIDE DEF j
    <2> QED  BY <1>1, <2>1, OneJob DEF PollStart, IInv
  <1>3. connQ' \in [Conn -> Seq(Handler)]  BY QueueOK DEF PollStart, IInv, TypeOK
  <1>4. ConnsOK' /\ ClientsOK' /\ MapOK'  BY SameSnaps DEF PollStart, IInv, MapOK
  <1> QED  BY <1>2, <1>3, <1>4 DEF IInv, TypeOK, PollStart

\* A handler that takes a snapshot for its client and moves on.
LEMMA SnapInv ==
    ASSUME IInv, NEW h \in Handler, job[h].pc # "idle",
           NEW stage \in Stage \ ({"reqTask", "query"} \cup Closing),
           NEW x, SnapOK(x, ClientIn(h), log, late, returned),
           job' = [job EXCEPT ![h].pc = stage, ![h].snap = x], UNCHANGED <<log, late, returned>>
    PROVE  job' \in [Handler -> Job] /\ JobsOK'
  <1> DEFINE j == [job[h] EXCEPT !.pc = stage, !.snap = x]
  <1>1. JobOK(j, log, late, returned)  BY Working, SnapStageOK DEF ClientIn
  <1>2. job' = [job EXCEPT ![h] = j]  BY DEF IInv, TypeOK
  <1> HIDE DEF j
  <1> QED  BY <1>1, <1>2, OneJob DEF IInv

LEMMA MergeReadClientInv ==
    ASSUME IInv, NEW h \in Handler, MergeReadClient(h)
    PROVE  IInv'
  <1>1. job[h].pc # "idle" /\ "mergeRead2" \in Stage \ ({"reqTask", "query"} \cup Closing)
    BY DEF MergeReadClient, Stage, Closing
  <1>2. \A x \in Compacted(client[ClientIn(h)]) : SnapOK(x, ClientIn(h), log, late, returned)
    BY <1>1, Working, CompactedOK DEF IInv, ClientsOK
  <1>3. job' \in [Handler -> Job] /\ JobsOK'  BY <1>1, <1>2, SnapInv DEF MergeReadClient
  <1>4. ConnsOK' /\ ClientsOK' /\ MapOK'  BY SameSnaps DEF MergeReadClient, IInv, MapOK
  <1> QED  BY <1>3, <1>4 DEF IInv, TypeOK, MergeReadClient

LEMMA MergeReadConnInv ==
    ASSUME IInv, NEW h \in Handler, MergeReadConn(h)
    PROVE  IInv'
  <1> DEFINE c == job[h].conn
  <1>1. /\ job[h].pc # "idle"
        /\ {"poll", "mergeTask"} \subseteq Stage \ ({"reqTask", "query"} \cup Closing)
    BY DEF MergeReadConn, Stage, ConnTask, UpdateTask, Closing
  <1>2. JobOK(job[h], log, late, returned) /\ c \in Conn  BY <1>1, Working
  <1>3. PICK current, x :
          /\ current \in Compacted(conn[c]) /\ x \in Compacted(ServerMerge(current, job[h].snap))
          /\ job' = [job EXCEPT ![h].pc = IF Present(x) = {} THEN "poll" ELSE "mergeTask",
                                ![h].snap = x]
    BY DEF MergeReadConn
  <1>4. SnapOK(x, ClientIn(h), log, late, returned)
    BY <1>2, <1>3, CompactedOK, MergeOK DEF IInv, ConnsOK, JobOK, ServerMerge, ClientIn
  <1>5. job' \in [Handler -> Job] /\ JobsOK'
    BY <1>1, <1>3, <1>4, SnapInv DEF MergeReadConn
  <1>6. connQ' \in [Conn -> Seq(Handler)]
    <2>1. connQ' = connQ \/ connQ' = Enqueue(connQ, c, h)  BY DEF MergeReadConn
    <2> QED  BY <2>1, QueueOK DEF IInv, TypeOK
  <1>7. ConnsOK' /\ ClientsOK' /\ MapOK'  BY SameSnaps DEF MergeReadConn, IInv, MapOK
  <1> QED  BY <1>5, <1>6, <1>7 DEF IInv, TypeOK, MergeReadConn

LEMMA PollReadInv ==
    ASSUME IInv, NEW h \in Handler, PollRead(h)
    PROVE  IInv'
  <1> DEFINE c == job[h].conn
             there == Present(conn[c])
             j == [Begin("query", c, conn[c]) EXCEPT !.todo = there, !.seen = there \cap Ephemeral]
  <1>1. job[h].pc # "idle" /\ c \in Conn  BY Working DEF PollRead
  <1>2. JobOK(j, log, late, returned)
    <2>1. SnapOK(conn[c], ClientOf[c], log, late, returned)  BY <1>1 DEF IInv, ConnsOK
    <2>2. j \in Job  BY <1>1, <2>1, EmptyOK DEF Begin, Idle, Job, Stage, SnapOK, Present
    <2> QED  BY <1>1, <2>1, <2>2, EmptyOK DEF JobOK, Begin, Idle, Closing
  <1>3. job' \in [Handler -> Job] /\ JobsOK'
    <2>1. job' = [job EXCEPT ![h] = Idle] \/ job' = [job EXCEPT ![h] = j]  BY DEF PollRead
    <2> HIDE DEF j
    <2> QED  BY <1>2, <2>1, IdleOK, OneJob DEF PollRead, IInv
  <1>4. connOf' \in [Client -> Conn \cup {None}] /\ MapOK'  BY <1>1, TouchOK DEF PollRead, IInv
  <1>5. ConnsOK' /\ ClientsOK'  BY SameSnaps DEF PollRead, IInv
  <1> QED  BY <1>3, <1>4, <1>5 DEF IInv, TypeOK, PollRead

\* The step NoGap is about: the cursor moves to the newest event found, and
\* every event it passes was returned now or before.
LEMMA ReplayedOK ==
    ASSUME NEW s \in Sub, NEW n, NEW k, NEW L, NEW T, NEW R, NEW R2,
           EntryOK(n, s, k, L, T, R), L \subseteq Event, R \subseteq R2,
           NEW found, found = {e \in L : e \in Matches[n.filter] /\ Stamp[e] > n.cursor},
           \A e \in found : <<k, s, e>> \in R2,
           NEW x \in Replayed(s, n, found), x # None
    PROVE  EntryOK(x, s, k, L, T, R2)
  <1>1. x = n \/ \E e \in found : x = [n EXCEPT !.cursor = Stamp[e]]
    BY DEF Replayed
  <1>2. n \in Entry /\ n.cursor \in Nat  BY CursorNat DEF EntryOK, Entry
  <1>3. CASE x = n  BY <1>3 DEF EntryOK
  <1>4. ASSUME NEW d \in found, x = [n EXCEPT !.cursor = Stamp[d]]
        PROVE  EntryOK(x, s, k, L, T, R2)
    <2>1. x.cursor = Stamp[d] /\ x.filter = n.filter /\ x \in Entry
      BY <1>2, <1>4 DEF Entry, Cursor
    <2>2. x.cursor <= Stamp[d]  BY <2>1, ConstantsAssumption
    <2>3. \A e \in L : Stamp[e] > n.cursor \/ Stamp[e] <= n.cursor
      BY <1>2, ConstantsAssumption
    <2>4. \A e \in (L \ T) \cap Matches[n.filter] : s \in Stable => <<k, s, e>> \in R2 \/ ~(Stamp[e] <= x.cursor)
      BY <2>3 DEF EntryOK
    <2> QED  BY <2>1, <2>2, <2>4 DEF EntryOK
  <1> QED  BY <1>1, <1>3, <1>4

LEMMA QuerySubInv ==
    ASSUME IInv, NEW h \in Handler, NEW s \in Sub, QuerySub(h, s)
    PROVE  IInv'
  <1> DEFINE n == job[h].snap[s]
             k == ClientIn(h)
  <1>1. JobOK(job[h], log, late, returned) /\ job[h].conn \in Conn /\ k \in Client
    BY Working DEF QuerySub
  <1>2. PICK x \in Replayed(s, n, Found(n)) :
          job' = [job EXCEPT ![h].snap[s] = x, ![h].todo = @ \ {s}]
    BY DEF QuerySub
  <1>3. returned \subseteq returned' /\ \A e \in Found(n) : <<k, s, e>> \in returned'
    BY DEF QuerySub
  <1>4. EntryOK(n, s, k, log, late, returned) /\ n # None
    BY <1>1 DEF QuerySub, JobOK, Present, SnapOK, ClientIn
  <1>5. x # None => EntryOK(x, s, k, log, late, returned')
    BY <1>3, <1>4, ReplayedOK DEF Found, IInv, TypeOK
  <1> DEFINE y == [job[h].snap EXCEPT ![s] = x]
             j == [job[h] EXCEPT !.snap = y, !.todo = @ \ {s}]
  <1>6. SnapOK(y, k, log, late, returned')
    <2>1. SnapOK(job[h].snap, k, log, late, returned')
      BY <1>1, <1>3, ReturnedMoreOK DEF JobOK, ClientIn
    <2>2. y \in Snapshot  BY <1>5, <2>1 DEF SnapOK, Snapshot, EntryOK
    <2> QED  BY <1>5, <2>1, <2>2 DEF SnapOK, Snapshot
  <1>7. JobOK(j, log, late, returned')
    <2>1. SnapOK(job[h].read, k, log, late, returned')
      BY <1>1, <1>3, ReturnedMoreOK DEF JobOK, ClientIn
    <2>2. j.snap = y /\ j.read = job[h].read /\ j.conn = job[h].conn /\ j.pc = "query"
          /\ j.todo = job[h].todo \ {s}
      BY <1>1 DEF JobOK, Job, QuerySub
    <2>3. j \in Job  BY <1>1, <1>6 DEF JobOK, Job, SnapOK
    <2>4. j.todo \subseteq Present(j.snap)
      BY <1>1, <2>2 DEF JobOK, Present, QuerySub, Job, Snapshot
    <2> QED  BY <1>1, <1>6, <2>1, <2>2, <2>3, <2>4 DEF JobOK, Closing, ClientIn
  <1>8. \A g \in Handler : JobOK(job[g], log, late, returned')
    BY <1>3, ReturnedMoreOK DEF IInv, JobsOK, JobOK
  <1>9. job' = [job EXCEPT ![h] = j]  BY <1>2 DEF IInv, TypeOK
  <1>10. job' \in [Handler -> Job] /\ JobsOK'
    <2> HIDE DEF j
    <2> QED  BY <1>7, <1>8, <1>9 DEF QuerySub, IInv, TypeOK, JobsOK, JobOK
  <1>11. ConnsOK' /\ ClientsOK'
    BY <1>3, ReturnedMoreOK DEF QuerySub, IInv, ConnsOK, ClientsOK
  <1>12. returned' \subseteq Client \X Sub \X Event
    BY <1>1 DEF QuerySub, Found, IInv, TypeOK
  <1> QED  BY <1>10, <1>11, <1>12 DEF IInv, TypeOK, QuerySub, MapOK

LEMMA PollStoreInv ==
    ASSUME IInv, NEW h \in Handler, PollStore(h)
    PROVE  IInv'
  <1>1. job[h].pc # "idle" /\ "storeTask" \in Stage \ ({"reqTask", "query"} \cup Closing)
    BY DEF PollStore, Stage, ConnTask, UpdateTask, Closing
  <1>2. \A x \in Compacted(job[h].snap) : SnapOK(x, ClientIn(h), log, late, returned)
    BY <1>1, Working, CompactedOK DEF JobOK, ClientIn
  <1>3. job' \in [Handler -> Job] /\ JobsOK'  BY <1>1, <1>2, SnapInv DEF PollStore
  <1>4. connQ' \in [Conn -> Seq(Handler)]  BY QueueOK DEF PollStore, IInv, TypeOK
  <1>5. ConnsOK' /\ ClientsOK' /\ MapOK'  BY SameSnaps DEF PollStore, IInv, MapOK
  <1> QED  BY <1>3, <1>4, <1>5 DEF IInv, TypeOK, PollStore

LEMMA RefreshStartInv ==
    ASSUME IInv, NEW h \in Handler, NEW k \in Client, RefreshStart(h, k)
    PROVE  IInv'
  <1> DEFINE c == connOf[k]
  <1>1. c \in Conn  BY DEF RefreshStart, IInv, TypeOK
  <1>2. PICK x \in Compacted(conn[c]) : job' = [job EXCEPT ![h] = Begin("refreshTask", c, Reset(x))]
    BY DEF RefreshStart
  <1>3. JobOK(Begin("refreshTask", c, Reset(x)), log, late, returned)
    <2>1. SnapOK(Reset(x), ClientOf[c], log, late, returned)
      BY <1>1, CompactedOK, ResetOK DEF IInv, ConnsOK, TypeOK
    <2>2. "refreshTask" \in Stage \ ({"reqTask", "query"} \cup Closing)
      BY DEF Stage, ConnTask, UpdateTask, Closing
    <2> QED  BY <1>1, <2>1, <2>2, BeginOK
  <1>4. job' \in [Handler -> Job] /\ JobsOK'  BY <1>2, <1>3, OneJob DEF RefreshStart, IInv
  <1>5. connQ' \in [Conn -> Seq(Handler)]  BY QueueOK DEF RefreshStart, IInv, TypeOK
  <1>6. ConnsOK' /\ ClientsOK' /\ MapOK'  BY SameSnaps DEF RefreshStart, IInv, MapOK
  <1> QED  BY <1>4, <1>5, <1>6 DEF IInv, TypeOK, RefreshStart

LEMMA RefreshReadClientInv ==
    ASSUME IInv, NEW h \in Handler, RefreshReadClient(h)
    PROVE  IInv'
  <1>1. job[h].pc # "idle" /\ "refreshClient" \in Stage \ ({"reqTask", "query"} \cup Closing)
    BY DEF RefreshReadClient, Stage, ClientTask, WriteOf, Closing
  <1>2. \A x \in Compacted(client[ClientIn(h)]) : SnapOK(Reset(x), ClientIn(h), log, late, returned)
    BY <1>1, Working, CompactedOK, ResetOK DEF IInv, ClientsOK, TypeOK
  <1>3. job' \in [Handler -> Job] /\ JobsOK'  BY <1>1, <1>2, SnapInv DEF RefreshReadClient
  <1>4. clientQ' \in [Client -> Seq(Handler)]  BY QueueOK DEF RefreshReadClient, IInv, TypeOK
  <1>5. ConnsOK' /\ ClientsOK' /\ MapOK'  BY SameSnaps DEF RefreshReadClient, IInv, MapOK
  <1> QED  BY <1>3, <1>4, <1>5 DEF IInv, TypeOK, RefreshReadClient

\* The stages a queued write leads to.
LEMMA Stages ==
    /\ {"idle", "poll", "mergeRead", "refreshRead", "rehClient", "mergeClient", "storeClient"}
         \subseteq Stage \ ({"reqTask", "query"} \cup Closing)
    /\ ClientWrite \subseteq Stage \ ({"reqTask", "query"} \cup Closing)
    /\ "idle" \notin UpdateTask \cup ClientWrite \cup DOMAIN WriteOf
  BY DEF Stage, ConnTask, ClientTask, ClientWrite, WriteOf, Closing, UpdateTask

LEMMA UpdateConnInv ==
    ASSUME IInv, NEW h \in Handler, UpdateConn(h)
    PROVE  IInv'
  <1> DEFINE c == job[h].conn
  <1>1. JobOK(job[h], log, late, returned) /\ c \in Conn /\ ClientOf[c] \in Client
        /\ job[h].pc # "idle"
    BY Working, Stages DEF UpdateConn, ClientIn
  <1>2. PICK x \in Pruned(Merge(conn[c], job[h].snap), None) : conn' = [conn EXCEPT ![c] = x]
    BY DEF UpdateConn
  <1>3. SnapOK(x, ClientOf[c], log, late, returned)
    BY <1>1, MergeOK, PrunedOK DEF IInv, ConnsOK, JobOK
  <1>4. AfterConn(h) \in {"idle", "refreshRead", "rehClient", "mergeClient", "storeClient"}
    BY DEF UpdateConn, AfterConn, UpdateTask
  <1>5. job' \in [Handler -> Job] /\ JobsOK'
    BY <1>1, <1>4, Stages, GotoInv DEF UpdateConn, IInv
  <1>6. connQ' \in [Conn -> Seq(Handler)] /\ clientQ' \in [Client -> Seq(Handler)]
    <2>1. connQ' \in [Conn -> Seq(Handler)]
      BY <1>1, QueueOK DEF UpdateConn, IInv, TypeOK, HoldsConn
    <2>2. clientQ' = clientQ \/ clientQ' = Enqueue(clientQ, ClientOf[c], h)  BY DEF UpdateConn
    <2> QED  BY <2>1, <2>2, QueueOK DEF IInv, TypeOK
  <1>7. ConnsOK' /\ conn' \in [Conn -> Snapshot]
    BY <1>1, <1>2, <1>3 DEF IInv, TypeOK, ConnsOK, UpdateConn, SnapOK
  <1>8. ClientsOK' /\ MapOK'  BY SameSnaps DEF UpdateConn, IInv, MapOK
  <1>9. want' \in [Conn -> [Sub -> Filter \cup {None}]]
    <2>1. \A r \in Sub : job[h].snap[r] # None => job[h].snap[r].filter \in Filter
      BY <1>1 DEF JobOK, SnapOK, EntryOK, Entry
    <2> QED  BY <1>1, <2>1 DEF UpdateConn, IInv, TypeOK
  <1> QED  BY <1>5, <1>6, <1>7, <1>8, <1>9 DEF IInv, TypeOK, UpdateConn

LEMMA ReadClientInv ==
    ASSUME IInv, NEW h \in Handler, ReadClient(h)
    PROVE  IInv'
  <1> DEFINE k == ClientIn(h)
             stage == WriteOf[job[h].pc]
             j == [job[h] EXCEPT !.pc = stage, !.read = client[k]]
  <1>1. job[h].pc # "idle" /\ stage \in Stage \ ({"reqTask", "query"} \cup Closing)
    BY Stages DEF ReadClient, ClientWrite
  <1>2. JobOK(job[h], log, late, returned) /\ k \in Client  BY <1>1, Working
  <1>3. JobOK(j, log, late, returned)  BY <1>1, <1>2, ReadStageOK DEF IInv, ClientsOK, ClientIn
  <1>4. job' = [job EXCEPT ![h] = j]  BY DEF ReadClient, IInv, TypeOK
  <1>5. job' \in [Handler -> Job] /\ JobsOK'
    <2> HIDE DEF j
    <2> QED  BY <1>3, <1>4, OneJob DEF ReadClient, IInv
  <1>6. ConnsOK' /\ ClientsOK' /\ MapOK'  BY SameSnaps DEF ReadClient, IInv, MapOK
  <1> QED  BY <1>5, <1>6 DEF IInv, TypeOK, ReadClient

LEMMA WriteClientInv ==
    ASSUME IInv, NEW h \in Handler, WriteClient(h)
    PROVE  IInv'
  <1> DEFINE k == ClientIn(h)
  <1>1. JobOK(job[h], log, late, returned) /\ job[h].conn \in Conn /\ k \in Client
        /\ job[h].pc # "idle"
    BY Working, Stages DEF WriteClient
  <1>2. PICK x \in Pruned(FilterEphemeral(Merge(job[h].read, job[h].snap)), None) :
          client' = [client EXCEPT ![k] = x]
    BY DEF WriteClient
  <1>3. SnapOK(x, k, log, late, returned)
    BY <1>1, MergeOK, WithoutOK, PrunedOK DEF JobOK, FilterEphemeral, ClientIn
  <1>4. job' \in [Handler -> Job] /\ JobsOK'
    BY <1>1, Stages, GotoInv DEF WriteClient, AfterClient, IInv
  <1>5. connQ' \in [Conn -> Seq(Handler)] /\ clientQ' \in [Client -> Seq(Handler)]
    BY <1>1, QueueOK DEF WriteClient, IInv, TypeOK, HoldsConn, HoldsClient
  <1>6. ClientsOK' /\ client' \in [Client -> Snapshot]
    BY <1>1, <1>2, <1>3 DEF IInv, TypeOK, ClientsOK, WriteClient, SnapOK
  <1>7. ConnsOK' /\ MapOK'  BY SameSnaps DEF WriteClient, IInv, MapOK
  <1> QED  BY <1>4, <1>5, <1>6, <1>7 DEF IInv, TypeOK, WriteClient

LEMMA ConnWriteFailsInv ==
    ASSUME IInv, NEW h \in Handler, ConnWriteFails(h)
    PROVE  IInv'
  <1>1. job[h].pc # "idle"  BY Stages DEF ConnWriteFails
  <1>2. job[h].conn \in Conn  BY <1>1, Working
  <1>3. \E stage \in {"idle", "poll", "mergeRead", "refreshRead"} : job' = Goto(h, stage)
    BY DEF ConnWriteFails
  <1>4. job' \in [Handler -> Job] /\ JobsOK'
    BY <1>1, <1>3, Stages, GotoInv DEF ConnWriteFails, IInv
  <1>5. connQ' \in [Conn -> Seq(Handler)]
    BY <1>2, QueueOK DEF ConnWriteFails, IInv, TypeOK, HoldsConn
  <1>6. ConnsOK' /\ ClientsOK' /\ MapOK'  BY SameSnaps DEF ConnWriteFails, IInv, MapOK
  <1> QED  BY <1>4, <1>5, <1>6 DEF IInv, TypeOK, ConnWriteFails

LEMMA ClientWriteFailsInv ==
    ASSUME IInv, NEW h \in Handler, ClientWriteFails(h)
    PROVE  IInv'
  <1>1. job[h].pc # "idle"  BY Stages DEF ClientWriteFails
  <1>2. job[h].conn \in Conn /\ ClientIn(h) \in Client  BY <1>1, Working
  <1>3. \E stage \in {"idle", "poll", "mergeRead"} : job' = Goto(h, stage)
    BY DEF ClientWriteFails
  <1>4. job' \in [Handler -> Job] /\ JobsOK'
    BY <1>1, <1>3, Stages, GotoInv DEF ClientWriteFails, IInv
  <1>5. connQ' \in [Conn -> Seq(Handler)] /\ clientQ' \in [Client -> Seq(Handler)]
    BY <1>2, QueueOK DEF ClientWriteFails, IInv, TypeOK, HoldsConn, HoldsClient
  <1>6. ConnsOK' /\ ClientsOK' /\ MapOK'  BY SameSnaps DEF ClientWriteFails, IInv, MapOK
  <1> QED  BY <1>4, <1>5, <1>6 DEF IInv, TypeOK, ClientWriteFails

LEMMA ArriveInv ==
    ASSUME IInv, NEW e \in Event, Arrive(e)
    PROVE  IInv'
  <1>1. /\ log' = log \cup {e} /\ log \subseteq Event /\ late \subseteq late'
        /\ e \in late' \/ \A d \in log : ~(Stamp[d] >= Stamp[e])
        /\ returned' = returned
    BY DEF Arrive, IInv, TypeOK
  <1>2. \A x, k : SnapOK(x, k, log, late, returned) => SnapOK(x, k, log', late', returned')
    BY <1>1, ArrivalOK
  <1>3. JobsOK'  BY <1>2 DEF Arrive, IInv, JobsOK, JobOK
  <1>4. ConnsOK' /\ ClientsOK' /\ MapOK'
    BY <1>2 DEF Arrive, IInv, ConnsOK, ClientsOK, MapOK
  <1>5. late' \subseteq log'  BY DEF Arrive, IInv, TypeOK
  <1> QED  BY <1>1, <1>3, <1>4, <1>5 DEF Arrive, IInv, TypeOK

LEMMA NextInv == IInv /\ [Next]_vars => IInv'
  <1> SUFFICES ASSUME IInv, [Next]_vars  PROVE IInv'
    OBVIOUS
  <1>1. CASE UNCHANGED vars
    BY <1>1 DEF vars, IInv, TypeOK, MapOK, JobsOK, ConnsOK, ClientsOK
  <1>2. ASSUME NEW h \in Handler, Request(h)  PROVE IInv'
    BY <1>2, ReqStartInv, CloseStartInv, PollStartInv, RefreshStartInv DEF Request
  <1>3. ASSUME NEW h \in Handler, Step(h)  PROVE IInv'
    BY <1>3, ReqTaskInv, CloseTaskInv, CloseReadClientInv, CloseWriteClientInv,
       MergeReadClientInv, MergeReadConnInv, PollReadInv, QuerySubInv, PollStoreInv,
       RefreshReadClientInv, UpdateConnInv, ReadClientInv, WriteClientInv
    DEF Step
  <1>4. ASSUME NEW h \in Handler, ConnWriteFails(h) \/ ClientWriteFails(h)  PROVE IInv'
    BY <1>4, ConnWriteFailsInv, ClientWriteFailsInv
  <1>5. ASSUME NEW e \in Event, Arrive(e)  PROVE IInv'
    BY <1>5, ArriveInv
  <1> QED  BY <1>1, <1>2, <1>3, <1>4, <1>5 DEF Next

LEMMA Invariance == Spec => []IInv
  BY InitInv, NextInv, PTL DEF Spec

\* Every reachable state is well typed.
THEOREM TypeCorrect == Spec => []TypeOK
  BY Invariance, PTL DEF IInv

\* No cursor, on any connection or client, passes an in-order event that the
\* client was not given.
THEOREM NothingSkipped == Spec => []NoGap
  <1>1. ASSUME NEW x, NEW k, SnapOK(x, k, log, late, returned)  PROVE Covered(x, k)
    BY <1>1 DEF SnapOK, EntryOK, Covered, Stable
  <1>2. IInv => NoGap
    BY <1>1 DEF IInv, ConnsOK, ClientsOK, NoGap
  <1> QED  BY Invariance, <1>2, PTL

LEMMA EntryCursor ==
    ASSUME NEW x \in Snapshot, NEW s \in Sub, x[s] # None
    PROVE  x[s] \in Entry /\ x[s].cursor \in Nat
  <1>1. x[s] \in Entry  BY DEF Snapshot
  <1> QED  BY <1>1, CursorNat DEF Entry

\* Merging never loses an entry and never lowers a cursor; pruning only drops.
LEMMA MergeKeeps ==
    ASSUME NEW x \in Snapshot, NEW y \in Snapshot, NEW p, NEW z \in Pruned(Merge(x, y), p),
           NEW s \in Sub
    PROVE  /\ x[s] # None /\ z[s] # None => z[s].cursor >= x[s].cursor
           /\ s \notin Timeline /\ (x[s] # None \/ y[s] # None) => z[s] # None
  <1>1. x[s] \in Entry \cup {None} /\ y[s] \in Entry \cup {None}  BY DEF Snapshot
  <1>2. PICK gone : gone \subseteq Timeline /\ z = Without(Merge(x, y), gone)
    BY PrunedIsWithout
  <1>3. z[s] = IF s \in gone THEN None ELSE Merge(x, y)[s]  BY <1>2 DEF Without
  <1>4. x[s] # None /\ y[s] # None =>
          MergeEntry(x[s], y[s]) # None /\ MergeEntry(x[s], y[s]).cursor >= x[s].cursor
    <2> SUFFICES ASSUME x[s] # None, y[s] # None
                 PROVE  /\ MergeEntry(x[s], y[s]) # None
                        /\ MergeEntry(x[s], y[s]).cursor >= x[s].cursor
      OBVIOUS
    <2>1. MergeEntry(x[s], y[s]) \in Entry  BY <1>1 DEF MergeEntry, Entry
    <2>2. MergeEntry(x[s], y[s]) # None  BY <2>1, NoneAssumption
    <2>3. x[s].cursor \in Nat /\ y[s].cursor \in Nat  BY EntryCursor
    <2> QED  BY <2>2, <2>3 DEF MergeEntry
  <1>5. x[s] # None => x[s].cursor \in Nat  BY EntryCursor
  <1> QED  BY <1>2, <1>3, <1>4, <1>5 DEF Merge

\* Only the tasks of a connection change its snapshot, and only a REQ writes an
\* entry of its own instead of merging.
THEOREM CursorsMonotone == Spec => CursorMonotone
  <1>1. ASSUME IInv, [Next]_vars  PROVE [CursorNeverBack]_vars
    <2> SUFFICES ASSUME NEW c \in Conn, NEW s \in Sub, conn[c][s] # None, conn'[c][s] # None,
                        conn'[c][s].cursor < conn[c][s].cursor
                 PROVE  \E h \in Handler : /\ job[h].pc = "reqTask" /\ job[h].conn = c
                                           /\ job[h].sub = s /\ HoldsConn(h)
      BY DEF CursorNeverBack
    <2>1. conn[c] \in Snapshot /\ conn[c][s].cursor \in Nat
      BY <1>1, EntryCursor DEF IInv, TypeOK
    <2>2. conn' # conn  BY <2>1
    <2>3. PICK h \in Handler : ReqTask(h) \/ CloseTask(h) \/ UpdateConn(h)
      BY <1>1, <2>2, ZenonT(40) DEF Next, Request, Step, vars, ReqStart, CloseStart, PollStart, RefreshStart,
         CloseReadClient, CloseWriteClient, MergeReadClient, MergeReadConn, PollRead, QuerySub,
         PollStore, RefreshReadClient, ReadClient, WriteClient, ConnWriteFails, ClientWriteFails,
         Arrive
    <2>4. JobOK(job[h], log, late, returned) /\ job[h].snap \in Snapshot
      BY <1>1 DEF IInv, JobsOK, JobOK, SnapOK
    <2>5. CASE CloseTask(h)
      <3>1. PICK x : /\ conn' = [conn EXCEPT ![job[h].conn] = x]
                     /\ x = conn[job[h].conn]
                        \/ x \in Pruned(Without(conn[job[h].conn], {job[h].sub}), None)
        BY <2>5 DEF CloseTask
      <3>2. x[s] \in {conn[job[h].conn][s], None}
        BY <3>1, PrunedIsWithout DEF Without
      <3> QED  BY <1>1, <2>1, <3>1, <3>2 DEF IInv, TypeOK
    <2>6. CASE UpdateConn(h)
      <3>1. PICK x \in Pruned(Merge(conn[job[h].conn], job[h].snap), None) :
              conn' = [conn EXCEPT ![job[h].conn] = x]
        BY <2>6 DEF UpdateConn
      <3>2. conn'[c] = IF c = job[h].conn THEN x ELSE conn[c]
        BY <1>1, <3>1 DEF IInv, TypeOK
      <3>3. job[h].conn = c  BY <2>1, <3>2
      <3>4. conn'[c][s].cursor >= conn[c][s].cursor  BY <2>1, <2>4, <3>1, <3>2, <3>3, MergeKeeps
      <3>5. conn'[c][s].cursor \in Nat
        BY <1>1, NextInv, EntryCursor DEF IInv, TypeOK
      <3> QED  BY <2>1, <3>4, <3>5
    <2>7. CASE ReqTask(h)
      <3> DEFINE merged == [Merge(conn[job[h].conn], job[h].snap) EXCEPT
                              ![job[h].sub] = [filter |-> job[h].filter, cursor |-> 0]]
      <3>1. PICK x \in Pruned(merged, job[h].sub) : conn' = [conn EXCEPT ![job[h].conn] = x]
        BY <2>7 DEF ReqTask
      <3>2. conn'[c] = IF c = job[h].conn THEN x ELSE conn[c]
        BY <1>1, <3>1 DEF IInv, TypeOK
      <3>3. job[h].conn = c  BY <2>1, <3>2
      <3>4. x[s] = merged[s]
        <4> HIDE DEF merged
        <4>1. PICK gone : x = Without(merged, gone)  BY <3>1, PrunedIsWithout
        <4>2. x[s] # None  BY <3>2, <3>3
        <4> QED  BY <4>1, <4>2 DEF Without
      <3>5. CASE s # job[h].sub
        <4>1. x[s] = Merge(conn[c], job[h].snap)[s]  BY <3>3, <3>4, <3>5 DEF Merge
        <4>2. job[h].snap[s] # None => job[h].snap[s].cursor \in Nat  BY <2>4, EntryCursor
        <4>3. x[s].cursor >= conn[c][s].cursor
          BY <2>1, <4>1, <4>2 DEF Merge, MergeEntry
        <4>4. conn'[c][s].cursor \in Nat
          BY <1>1, NextInv, EntryCursor DEF IInv, TypeOK
        <4> QED  BY <2>1, <3>2, <3>3, <4>3, <4>4
      <3> QED  BY <2>7, <3>3, <3>5 DEF ReqTask
    <2> QED  BY <2>3, <2>5, <2>6, <2>7
  <1> QED  BY <1>1, Invariance, PTL DEF Spec, CursorMonotone

\* A committed REQ survives every write that started from an older snapshot.
THEOREM NothingLost == Spec => []NoLostSubscription
  <1>1. Init => NoLostSubscription
    BY DEF Init, NoLostSubscription
  <1>2. ASSUME IInv, IInv', NoLostSubscription, [Next]_vars  PROVE NoLostSubscription'
    <2> SUFFICES ASSUME NEW c \in Conn, NEW s \in Sub \ Timeline, want'[c][s] # None
                 PROVE  conn'[c][s] # None
      BY DEF NoLostSubscription
    <2>1. want[c][s] # None => conn[c][s] # None  BY <1>2 DEF NoLostSubscription
    <2>2. CASE UNCHANGED <<conn, want>>  BY <2>1, <2>2
    <2>3. CASE ~UNCHANGED <<conn, want>>
      <3>1. PICK h \in Handler : ReqTask(h) \/ CloseTask(h) \/ UpdateConn(h)
        BY <1>2, <2>3, ZenonT(40) DEF Next, Request, Step, vars, ReqStart, CloseStart, PollStart, RefreshStart,
           CloseReadClient, CloseWriteClient, MergeReadClient, MergeReadConn, PollRead, QuerySub,
           PollStore, RefreshReadClient, ReadClient, WriteClient, ConnWriteFails,
           ClientWriteFails, Arrive
      <3>2. JobOK(job[h], log, late, returned) /\ job[h].snap \in Snapshot
            /\ conn[job[h].conn] \in Snapshot
        BY <1>2, <3>1, Working, Stages DEF IInv, JobsOK, JobOK, SnapOK, ReqTask, CloseTask,
           UpdateConn, TypeOK
      <3>3. CASE CloseTask(h)
        <4>1. PICK x : /\ conn' = [conn EXCEPT ![job[h].conn] = x]
                       /\ x = conn[job[h].conn]
                          \/ x \in Pruned(Without(conn[job[h].conn], {job[h].sub}), None)
          BY <3>3 DEF CloseTask
        <4>2. s # job[h].sub => x[s] = conn[job[h].conn][s]
          BY <4>1, PrunedIsWithout DEF Without
        <4> QED  BY <1>2, <2>1, <3>3, <4>1, <4>2 DEF CloseTask, IInv, TypeOK
      <3>4. CASE UpdateConn(h)
        <4>1. PICK x \in Pruned(Merge(conn[job[h].conn], job[h].snap), None) :
                conn' = [conn EXCEPT ![job[h].conn] = x]
          BY <3>4 DEF UpdateConn
        <4>2. conn[job[h].conn][s] # None \/ job[h].snap[s] # None => x[s] # None
          BY <3>2, <4>1, MergeKeeps
        <4>3. want'[c][s] # None => want[c][s] # None \/ (c = job[h].conn /\ job[h].snap[s] # None)
          BY <1>2, <3>4 DEF UpdateConn, IInv, TypeOK
        <4> QED  BY <1>2, <2>1, <4>1, <4>2, <4>3 DEF IInv, TypeOK
      <3>5. CASE ReqTask(h)
        <4> DEFINE n == [filter |-> job[h].filter, cursor |-> 0]
                   merged == [Merge(conn[job[h].conn], job[h].snap) EXCEPT ![job[h].sub] = n]
        <4>1. PICK x \in Pruned(merged, job[h].sub) : conn' = [conn EXCEPT ![job[h].conn] = x]
          BY <3>5 DEF ReqTask
        <4>2. x[s] = merged[s]
          <5> HIDE DEF merged
          <5>1. PICK gone : gone \subseteq Timeline /\ x = Without(merged, gone)
            BY <4>1, PrunedIsWithout
          <5> QED  BY <5>1 DEF Without
        <4>3. n # None
          <5>1. n \in Entry  BY <3>2, <3>5, ConstantsAssumption DEF ReqTask, JobOK, Entry, Cursor
          <5> QED  BY <5>1, NoneAssumption
        <4>4. s # job[h].sub /\ conn[job[h].conn][s] # None => merged[s] # None
          <5>2. conn[job[h].conn][s] # None => Merge(conn[job[h].conn], job[h].snap)[s] # None
            BY <3>2, NoneAssumption DEF Merge, MergeEntry, Snapshot, Entry, Cursor
          <5> QED  BY <5>2 DEF Merge
        <4>5. s = job[h].sub => merged[s] = n  BY DEF Merge
        <4>6. want'[c][s] # None => want[c][s] # None \/ (c = job[h].conn /\ s = job[h].sub)
          BY <1>2, <3>5 DEF ReqTask, IInv, TypeOK
        <4> HIDE DEF merged, n
        <4> QED  BY <1>2, <2>1, <4>1, <4>2, <4>3, <4>4, <4>5, <4>6 DEF IInv, TypeOK
      <3> QED  BY <3>1, <3>3, <3>4, <3>5
    <2> QED  BY <2>2, <2>3
  <1> QED  BY <1>1, <1>2, Invariance, PTL DEF Spec
=============================================================================
