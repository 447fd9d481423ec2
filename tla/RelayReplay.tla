------------------------------ MODULE RelayReplay ------------------------------
(***************************************************************************)
(* How one poll answers one subscription: handleSubscription with all the  *)
(* filters of the subscription and the index queries each filter turns     *)
(* into (hyperpipe-relay-event-processor.mjs).                             *)
(*                                                                         *)
(* A filter becomes groups of range queries, one group per attribute; a    *)
(* group is the union of its queries and the answer the intersection of    *)
(* the groups.  Every query is read from the view as it is when the query  *)
(* runs, and other writers publish between two queries.  A filter with ids *)
(* looks every id up instead: one group, one query per id.                 *)
(*                                                                         *)
(* Abstractions.  A query is the set of events in its key range, and the   *)
(* order of the keys is created_at, then id.  Absent values of a filter    *)
(* are 0 or the empty sequence, which the code treats alike; so is the     *)
(* cursor before anything was returned.  Polls of one subscription do not  *)
(* overlap here: overlapping handlers are in RelaySubscriptions, where a   *)
(* query is one step.                                                      *)
(***************************************************************************)
EXTENDS Integers, Sequences, FiniteSets, Functions

CONSTANTS
    Event,          \* the events that may be published
    At,             \* created_at
    Rank,           \* the order of the ids
    KindOf, Author, \* kind and pubkey of an event
    TagsOf,         \* its tags, a set of pairs <<name, value>>
    Subscriptions   \* the sequences of filters a REQ may carry

IsSequence(s) == s \in Seq(Range(s))

IsFilter(f) ==
    /\ {f.since, f.until, f.limit} \subseteq Nat
    /\ IsSequence(f.ids) /\ IsSequence(f.kinds) /\ IsSequence(f.authors) /\ IsSequence(f.tags)
    /\ \A i \in DOMAIN f.tags : IsSequence(f.tags[i][2])

EventAssumption ==
    /\ At \in [Event -> Nat \ {0}] /\ Rank \in [Event -> Nat]
    /\ \A d, e \in Event : Rank[d] = Rank[e] => d = e
    /\ \A fs \in Subscriptions : IsSequence(fs) /\ \A i \in DOMAIN fs : IsFilter(fs[i])

VARIABLES
    log,       \* events in the view
    filters,   \* the filters of the subscription
    cursor,    \* last_returned_event_timestamp, as stored
    poll,      \* the poll in progress
    returned   \* how often an event was put into a response, up to MaxReturns

replayVars == <<log, filters, cursor, poll, returned>>

MaxReturns == 2

-----------------------------------------------------------------------------
(* The queries of a filter *)

\* A variant of the definition below, as a careless change would leave it; the
\* properties tell it from the code.  So with every "...Variant".
NoAddVariant(f, base) == IF base > 0 THEN base ELSE f.since

From(f, base) == IF base > 0 THEN base + 1 ELSE f.since

\* The key range ends at "created_at:<until>:id:#", which sorts before every id.
InRange(f, base, e) == At[e] >= From(f, base) /\ (f.until # 0 => At[e] < f.until)

HasTag(e, name, values) == \E i \in DOMAIN values : <<name, values[i]>> \in TagsOf[e]

\* executeIdQueries' checks of an event that was found.
IdMatches(f, base, e) ==
    /\ base > 0 => At[e] >= base
    /\ f.since > 0 => At[e] >= (IF base > 0 THEN base ELSE f.since)
    /\ f.until > 0 => At[e] <= f.until
    /\ f.kinds # <<>> => KindOf[e] \in Range(f.kinds)
    /\ f.authors # <<>> => Author[e] \in Range(f.authors)
    /\ \A i \in DOMAIN f.tags : HasTag(e, f.tags[i][1], f.tags[i][2])

\* One query for each value of a field; a field that is not given has no group.
GroupOf(f, base, values, field) ==
    IF values = <<>> THEN <<>>
    ELSE << [i \in DOMAIN values |-> {e \in Event : field[e] = values[i] /\ InRange(f, base, e)}] >>

\* constructQueries: a sequence of groups, a group a sequence of queries.
IndexGroups(f, base) ==
    GroupOf(f, base, f.kinds, KindOf)
    \o GroupOf(f, base, f.authors, Author)
    \o [t \in DOMAIN f.tags |->
          [i \in DOMAIN f.tags[t][2] |->
             {e \in Event : <<f.tags[t][1], f.tags[t][2][i]>> \in TagsOf[e] /\ InRange(f, base, e)}]]

Groups(f, base) ==
    IF f.ids # <<>> THEN << [i \in DOMAIN f.ids |-> {f.ids[i]} \cap {e \in Event : IdMatches(f, base, e)}] >>
    ELSE IF IndexGroups(f, base) = <<>> THEN << << {e \in Event : InRange(f, base, e)} >> >>
    ELSE IndexGroups(f, base)

Earlier(d, e) == At[d] < At[e] \/ (At[d] = At[e] /\ Rank[d] < Rank[e])

\* A range read: key order.
Stream(query) ==
    LET read == query \cap log
        Place(e) == Cardinality({d \in read : Earlier(d, e)})
    IN  [i \in 1..Cardinality(read) |-> CHOOSE e \in read : Place(e) = i - 1]

\* findCommonIds: the ids of the first group, in the order they were found,
\* that are in every other group.
Common(found) ==
    LET inAll(e) == \A i \in DOMAIN found : e \in Range(found[i])
        first(i) == \A j \in 1..(i - 1) : found[1][j] # found[1][i]
    IN  {i \in DOMAIN found[1] : first(i) /\ inAll(found[1][i])}

\* The limit counts only while nothing was returned before; it keeps the events
\* that were found first.
AnswerOf(f, base, found) ==
    {found[1][i] : i \in {j \in Common(found) :
        (f.limit > 0 /\ base = 0) => Cardinality({k \in Common(found) : k < j}) < f.limit}}

-----------------------------------------------------------------------------
(* A poll *)

\* at: the filter being answered, 0 when no poll runs.  base: the cursor the
\* poll started from.  next: the cursor it will store.  queries: groups still
\* to read of this filter.  found: what the groups read so far produced, the
\* last one still growing.  before: history, the log when the poll started.
NoPoll == [at |-> 0, base |-> 0, next |-> 0, queries |-> <<>>, found |-> <<>>, before |-> {}]

\* The queries of filter i; none after the last.
Opened(i, base) == IF i \in DOMAIN filters THEN Groups(filters[i], base) ELSE <<>>

StartPoll ==
    /\ poll.at = 0
    /\ poll' = [at |-> 1, base |-> cursor, next |-> cursor, queries |-> Opened(1, cursor),
                found |-> << <<>> >>, before |-> log]
    /\ UNCHANGED <<log, filters, cursor, returned>>

\* One range read or one lookup of an id.
RunQuery ==
    /\ poll.at # 0 /\ poll.queries # <<>> /\ Head(poll.queries) # <<>>
    /\ LET n == Len(poll.found) IN
       poll' = [poll EXCEPT !.queries[1] = Tail(@),
                            !.found[n] = @ \o Stream(Head(Head(poll.queries)))]
    /\ UNCHANGED <<log, filters, cursor, returned>>

\* The next group, another set of ids.
NextGroup ==
    /\ poll.at # 0 /\ Len(poll.queries) > 1 /\ Head(poll.queries) = <<>>
    /\ poll' = [poll EXCEPT !.queries = Tail(@), !.found = Append(@, <<>>)]
    /\ UNCHANGED <<log, filters, cursor, returned>>

NewestAt(events) == CHOOSE t \in {At[e] : e \in events} : \A e \in events : At[e] <= t

MovingBaseVariant(events) ==
    LET base == IF events = {} THEN poll.base ELSE NewestAt(events) IN
    [poll EXCEPT !.at = @ + 1, !.found = << <<>> >>, !.next = base, !.base = base,
                 !.queries = Opened(poll.at + 1, base)]

\* The cursor of the subscription becomes that of the newest event of this
\* filter; the next filter starts from the old one.
Advanced(events) ==
    [poll EXCEPT !.at = @ + 1, !.found = << <<>> >>,
                 !.next = IF events = {} THEN @ ELSE NewestAt(events),
                 !.queries = Opened(poll.at + 1, poll.base)]

AnswerFilter ==
    /\ poll.at \in DOMAIN filters /\ poll.queries = << <<>> >>
    /\ LET events == AnswerOf(filters[poll.at], poll.base, poll.found) IN
       /\ returned' = [e \in Event |-> IF e \in events /\ returned[e] < MaxReturns
                                       THEN returned[e] + 1 ELSE returned[e]]
       /\ poll' = Advanced(events)
    /\ UNCHANGED <<log, filters, cursor>>

NextSecondVariant ==
    /\ poll.at = Len(filters) + 1
    /\ cursor' = poll.next + 1
    /\ poll' = NoPoll
    /\ UNCHANGED <<log, filters, returned>>

\* The snapshot is stored: the larger cursor wins.
FinishPoll ==
    /\ poll.at = Len(filters) + 1
    /\ cursor' = IF poll.next > cursor THEN poll.next ELSE cursor
    /\ poll' = NoPoll
    /\ UNCHANGED <<log, filters, returned>>

\* apply writes the event and its index keys in one batch.
EventArrives(e) ==
    /\ e \notin log
    /\ log' = log \cup {e}
    /\ UNCHANGED <<filters, cursor, poll, returned>>

ReplayInit ==
    /\ log = {}
    /\ filters \in Subscriptions
    /\ cursor = 0 /\ poll = NoPoll
    /\ returned = [e \in Event |-> 0]

ReplayNext ==
    \/ StartPoll \/ RunQuery \/ NextGroup \/ AnswerFilter \/ FinishPoll
    \/ \E e \in Event : EventArrives(e)

ReplaySpec == ReplayInit /\ [][ReplayNext]_replayVars

-----------------------------------------------------------------------------
(* Properties *)

ReplayTypeOK ==
    /\ log \subseteq Event
    /\ filters \in Subscriptions
    /\ cursor \in {0} \cup {At[e] : e \in Event}
    /\ poll.at \in 0..(Len(filters) + 1) /\ poll.before \subseteq log
    /\ returned \in [Event -> 0..MaxReturns]

\* What a filter asks for, attribute by attribute, but for its "since".
Matches(f, e) ==
    /\ f.ids # <<>> => e \in Range(f.ids)
    /\ f.kinds # <<>> => KindOf[e] \in Range(f.kinds)
    /\ f.authors # <<>> => Author[e] \in Range(f.authors)
    /\ \A i \in DOMAIN f.tags : HasTag(e, f.tags[i][1], f.tags[i][2])
    /\ f.until > 0 => At[e] <= f.until

Asked(f, e) == Matches(f, e) /\ At[e] >= f.since

\* Every event in the view when a poll starts, newer than the cursor, that a
\* filter without a limit asks for is returned once the poll has answered that
\* filter, and nothing is returned that no filter asks for: the unions and
\* intersections of range reads compute the filter, whatever is published in
\* between.  An event at the very "until" is another matter; and with several
\* filters a "since" counts only until something was returned, for then the
\* cursor is read for it.
PollIsComplete ==
    /\ \A i \in DOMAIN filters : i < poll.at =>
         \A e \in poll.before :
            (filters[i].limit = 0 /\ Asked(filters[i], e)
               /\ At[e] > cursor /\ At[e] # filters[i].until)
            => returned[e] > 0
    /\ \A e \in Event : returned[e] > 0 =>
         \E i \in DOMAIN filters :
            Matches(filters[i], e) /\ (Len(filters) = 1 => At[e] >= filters[i].since)

\* A subscription with one filter, not by ids, is sent no event twice, whatever
\* its limit and whatever arrives late or during a poll.
SingleFilterOnce ==
    (Len(filters) = 1 /\ filters[1].ids = <<>>) => \A e \in Event : returned[e] <= 1
=============================================================================
