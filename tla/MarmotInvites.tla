---------------------------- MODULE MarmotInvites ----------------------------
(* One invite of src/marmot-service.mjs.  Syncs fetch it, unlock it, derive a *)
(* preview and store a changed copy; a user accepts it, also twice; all of    *)
(* them await in between.  An invite is an object: a sync puts a new object   *)
(* into invitesById, an accept changes the one it holds and puts it back.     *)
EXTENDS Integers, FiniteSetsExt

CONSTANTS MaxInviteRestarts

InviteAssumption == MaxInviteRestarts \in Nat

\* "poll": syncAll, one at a time.  "init": runInitialSyncOperation.
Syncer == {"poll", "init"}
Accept == {"first", "second"}
\* An object is named by the first who holds it: the map, the two syncs, the
\* two accepts.
Object == 1..5

VARIABLES
    offered,    \* the relays have the gift wrap
    slot,       \* the object in invitesById, or 0
    object,     \* [Object -> record]
    grouped,    \* the client joined the group
    fetching,   \* [Syncer -> record]
    accepting,  \* [Accept -> record]
    due,        \* persistTimer
    stored,     \* state.json
    running,    \* the worker runs
    restarts,
    stale,      \* history: the status changed since this sync read it
    leftover    \* history: "joining" was stored without an accept that joins

inviteVars == <<offered, slot, object, grouped, fetching, accepting, due, stored, running,
                restarts, stale, leftover>>

\* preview: whether it has all that deriveInvitePreview can find.
Gone == [status |-> "gone", preview |-> FALSE]
Fresh == [status |-> "pending", preview |-> FALSE]

Empty(at, copy) == [at |-> at, held |-> 0, copy |-> copy, changed |-> FALSE]
NoFetch == Empty("idle", Gone)
NoAccept == [at |-> "idle", held |-> 0]

Shown == IF slot = 0 THEN Gone ELSE object[slot]

-----------------------------------------------------------------------------
(* The file; MarmotThreads has what happens while it is written *)

SaveTimer ==
    /\ running /\ due /\ due' = FALSE /\ stored' = Shown
    /\ UNCHANGED <<offered, slot, object, grouped, fetching, accepting, running, restarts, stale, leftover>>

InviteCrash ==
    /\ running /\ restarts < MaxInviteRestarts /\ restarts' = restarts + 1
    /\ running' = FALSE /\ due' = FALSE /\ leftover' = FALSE
    /\ fetching' = [p \in Syncer |-> NoFetch] /\ accepting' = [a \in Accept |-> NoAccept]
    /\ stale' = [p \in Syncer |-> FALSE]
    /\ slot' = 0 /\ object' = [o \in Object |-> Gone]
    /\ UNCHANGED <<offered, grouped, stored>>

InviteLoad ==
    /\ ~running /\ running' = TRUE
    /\ IF stored = Gone THEN UNCHANGED <<slot, object>>
       ELSE slot' = 1 /\ object' = [object EXCEPT ![1] = stored]
    /\ leftover' = (stored.status = "joining")
    /\ UNCHANGED <<offered, grouped, fetching, accepting, due, stored, restarts, stale>>

-----------------------------------------------------------------------------
(* syncInvites *)

\* What is in the objects o, the map and the hands of syncs and accepts, each
\* object under the name of its first holder.
Rename(o, s, f, a) ==
    LET holder == <<s, f["poll"].held, f["init"].held, a["first"].held, a["second"].held>>
        Name(x) == IF x = 0 THEN 0 ELSE Min({i \in Object : holder[i] = x}) IN
    /\ slot' = Name(s)
    /\ object' = [i \in Object |-> IF Name(holder[i]) = i THEN o[holder[i]] ELSE Gone]
    /\ fetching' = [p \in Syncer |-> [f[p] EXCEPT !.held = Name(@)]]
    /\ accepting' = [x \in Accept |-> [a[x] EXCEPT !.held = Name(@)]]

\* A new object with these fields, not yet in anyone's hand.
New == 6
With(r) == [o \in Object \cup {New} |-> IF o = New THEN r ELSE object[o]]

NeedsPreview(r) == ~r.preview

StartFetch(p) ==
    /\ running /\ fetching[p] = NoFetch
    /\ fetching' = [fetching EXCEPT ![p] = Empty("ask", Gone)]
    /\ stale' = [stale EXCEPT ![p] = FALSE]
    /\ UNCHANGED <<offered, slot, object, grouped, accepting, due, stored, running, restarts,
                   leftover>>

AtEnd(changed) == [at |-> "end", held |-> 0, copy |-> Gone, changed |-> changed]

\* Where the second loop finds an invite r in the map: it waits for a preview
\* of that very object, or the sync is done.
SecondLoop(p, s, r, changed) ==
    IF s # 0 /\ r.status # "joined" /\ NeedsPreview(r)
    THEN [fetching EXCEPT ![p] = [at |-> "second", held |-> s, copy |-> Gone, changed |-> changed]]
    ELSE [fetching EXCEPT ![p] = AtEnd(changed)]

\* The invite comes, or no relay answers; what is known of it is copied.
Fetched(p) ==
    /\ running /\ fetching[p].at = "ask"
    /\ \/ /\ offered /\ slot # 0 /\ Shown.status # "joined" /\ ~NeedsPreview(Shown)
          /\ Rename(With(Shown), New, SecondLoop(p, New, Shown, TRUE), accepting)
       \/ /\ offered /\ slot = 0
          /\ Rename(object, slot, [fetching EXCEPT ![p] = Empty("unlock", Gone)], accepting)
       \/ /\ offered /\ slot # 0 /\ Shown.status # "joined" /\ NeedsPreview(Shown)
          /\ Rename(object, slot, [fetching EXCEPT ![p] = Empty("preview", Shown)], accepting)
       \/ Rename(object, slot, SecondLoop(p, slot, Shown, FALSE), accepting)
    /\ stale' = [stale EXCEPT ![p] = FALSE]
    /\ UNCHANGED <<offered, grouped, due, stored, running, restarts,
                   leftover>>

\* The gift wrap is unlocked: a new invite, whatever came meanwhile.
Unlocked(p) ==
    /\ running /\ fetching[p].at = "unlock"
    /\ \/ Rename(object, slot, [fetching EXCEPT ![p] = Empty("preview", Fresh)], accepting)
       \/ Rename(object, slot, SecondLoop(p, slot, Shown, FALSE), accepting)
    /\ UNCHANGED <<offered, grouped, due, stored, running, restarts,
                   stale, leftover>>

\* Wrong: every invite that is stored is a pending one.
PendingVariant(r, found) == [r EXCEPT !.preview = found, !.status = "pending"]

Enriched(r, found) == [r EXCEPT !.preview = found]

\* Joining is stored, and nobody joins.
Unheld(r, p) == r.status = "joining" /\ (stale[p] \/ leftover)

\* The preview is derived, or not; the copy replaces what the map has.
Stores(p) ==
    /\ running /\ fetching[p].at = "preview"
    /\ \E found \in BOOLEAN :
          LET r == Enriched(fetching[p].copy, found) IN
          /\ Rename(With(r), New, SecondLoop(p, New, r, TRUE), accepting)
          /\ leftover' = Unheld(r, p)
    /\ stale' = [q \in Syncer |-> stale[q] \/ (q # p /\ slot # 0 /\ stale[p])]
    /\ UNCHANGED <<offered, grouped, due, stored, running, restarts>>

\* The second loop copies the object it holds after the preview came.
StoresSecond(p) ==
    /\ running /\ fetching[p].at = "second"
    /\ LET old == object[fetching[p].held]
           Ended(changed) == [fetching EXCEPT ![p] = AtEnd(changed)] IN
       \/ /\ Rename(With(Enriched(old, TRUE)), New, Ended(TRUE), accepting)
          /\ leftover' = Unheld(old, p)
          /\ stale' = [q \in Syncer |-> stale[q] \/ (q # p /\ slot # fetching[p].held)]
       \/ Rename(object, slot, Ended(fetching[p].changed), accepting) /\ UNCHANGED <<leftover, stale>>
    /\ UNCHANGED <<offered, grouped, due, stored, running, restarts>>

EndFetch(p) ==
    /\ running /\ fetching[p].at = "end"
    /\ due' = (due \/ fetching[p].changed)
    /\ fetching' = [fetching EXCEPT ![p] = NoFetch]
    /\ UNCHANGED <<offered, slot, object, grouped, accepting, stored, running, restarts,
                   stale, leftover>>

-----------------------------------------------------------------------------
(* runAcceptInviteOperation *)

\* The held object gets a status and is put back.
PutBack(o, status, a) ==
    /\ Rename([object EXCEPT ![o].status = status], o, fetching, a)
    /\ stale' = [p \in Syncer |-> fetching[p] # NoFetch]

AcceptInvite(a) ==
    /\ running /\ accepting[a] = NoAccept /\ slot # 0
    /\ PutBack(slot, "joining", [accepting EXCEPT ![a] = [at |-> "join", held |-> slot]])
    /\ leftover' = FALSE
    /\ UNCHANGED <<offered, grouped, due, stored, running, restarts>>

\* Wrong: nothing is scheduled when the group is joined.
QuietVariant == UNCHANGED due
Remember == due' = TRUE

Joins(a) ==
    /\ running /\ accepting[a].at = "join"
    /\ PutBack(accepting[a].held, "joined", [accepting EXCEPT ![a].at = "sync"])
    /\ grouped' = TRUE /\ Remember /\ leftover' = FALSE
    /\ UNCHANGED <<offered, stored, running, restarts>>

\* Wrong: an error makes it joined in any case.
JoinedVariant == "joined"
\* What an error before the group is joined makes of it.
Refused == "failed"

JoinFails(a) ==
    /\ running /\ accepting[a].at = "join"
    /\ PutBack(accepting[a].held, Refused, [accepting EXCEPT ![a] = NoAccept])
    /\ Remember /\ leftover' = FALSE
    /\ UNCHANGED <<offered, grouped, stored, running, restarts>>

\* The conversation is synced, or that throws: the invite is joined all the same.
AcceptEnds(a) ==
    /\ running /\ accepting[a].at = "sync"
    /\ \/ /\ Rename(object, slot, fetching, [accepting EXCEPT ![a] = NoAccept])
          /\ UNCHANGED <<leftover, stale>>
       \/ /\ PutBack(accepting[a].held, "joined", [accepting EXCEPT ![a] = NoAccept])
          /\ leftover' = FALSE
    /\ Remember
    /\ UNCHANGED <<offered, grouped, stored, running, restarts>>

Offer ==
    /\ ~offered /\ offered' = TRUE
    /\ UNCHANGED <<slot, object, grouped, fetching, accepting, due, stored, running, restarts,
                   stale, leftover>>

InviteInit ==
    /\ offered = FALSE /\ slot = 0 /\ object = [o \in Object |-> Gone] /\ grouped = FALSE
    /\ fetching = [p \in Syncer |-> NoFetch] /\ accepting = [a \in Accept |-> NoAccept]
    /\ due = FALSE /\ stored = Gone /\ running = TRUE /\ restarts = 0
    /\ stale = [p \in Syncer |-> FALSE] /\ leftover = FALSE

InviteNext ==
    \/ SaveTimer \/ InviteCrash \/ InviteLoad \/ Offer
    \/ \E p \in Syncer :
          \/ StartFetch(p) \/ Fetched(p) \/ Unlocked(p)
          \/ Stores(p) \/ StoresSecond(p) \/ EndFetch(p)
    \/ \E a \in Accept : AcceptInvite(a) \/ Joins(a) \/ JoinFails(a) \/ AcceptEnds(a)

InviteSpec == InviteInit /\ [][InviteNext]_inviteVars

-----------------------------------------------------------------------------
(* What it promises *)

InviteTypeOK ==
    /\ slot \in 0..5 /\ restarts \in 0..MaxInviteRestarts
    /\ \A o \in Object : object[o].status \in {"gone", "pending", "joining", "joined", "failed"}
    /\ \A b \in {offered, grouped, due, running, leftover} : b \in BOOLEAN
    /\ slot # 0 => Shown # Gone

\* A sync that no accept came across is about to store the status that is
\* shown: only one that had read the invite before can take a status back.
SyncKeepsStatus ==
    \A p \in Syncer : running /\ ~stale[p] /\ slot # 0 =>
        /\ fetching[p].at = "preview" => fetching[p].copy.status = Shown.status
        /\ fetching[p].at = "second" => object[fetching[p].held].status = Shown.status

\* An invite is shown, and stored, as joined only when the group was joined.
JoinedHasGroup == "joined" \in {Shown.status, stored.status} => grouped

\* An invite that is shown as joining is being joined, unless a crash or an
\* overtaken sync left it behind.
JoiningIsHeld ==
    Shown.status = "joining" => leftover \/ \E a \in Accept : accepting[a].at = "join"

\* At rest the file has the invite that is shown.
InviteIsSaved ==
    (/\ running /\ ~due /\ Shown.status # "joining"
     /\ \A p \in Syncer : fetching[p] = NoFetch)
    => stored = Shown

\* What is shown of an invite is what its accepts made of it.
InvitesKeep == SyncKeepsStatus /\ JoinedHasGroup /\ JoiningIsHeld /\ InviteIsSaved
=============================================================================
