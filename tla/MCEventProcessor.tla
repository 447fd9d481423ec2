-------------------------- MODULE MCEventProcessor --------------------------
\* The services of EventServices for TLC, side by side: a behaviour is one of one
\* of them.
EXTENDS EventServices, TLC

CONSTANTS r1, r2, v1, x1, c1, Parts

VARIABLE part

MCConnOf == [r \in Req |-> c1]

ASSUME ServiceConstants

-----------------------------------------------------------------------------
\* Four events, two with the same created_at, one of another kind.
MCLog == 1..4
MCAt == <<1, 2, 2, 3>>
MCRank == <<4, 3, 2, 1>>
MCKindOf == <<1, 7, 1, 1>>
MCAuthor == <<"ann", "ann", "bob", "ann">>
MCTagsOf == <<{<<"t", "x">>}, {<<"t", "y">>, <<"h", "g">>}, {<<"h", "g">>}, {<<"t", "x">>}>>

All == [ids |-> <<>>, kinds |-> <<>>, authors |-> <<>>, tags |-> <<>>,
        since |-> 0, until |-> 0, limit |-> 0]

\* Kinds of an author, two tags, ids, a limit, a time range, two filters,
\* and two of which one starts later.
MCSubscriptions ==
    {<<[All EXCEPT !.kinds = <<1, 7>>, !.authors = <<"ann">>]>>,
     <<[All EXCEPT !.kinds = <<7, 1>>, !.tags = << <<"t", <<"x", "y">> >>, <<"h", <<"g">> >> >>]>>,
     <<[All EXCEPT !.ids = <<1, 4>>, !.kinds = <<1>>]>>,
     <<[All EXCEPT !.kinds = <<1>>, !.limit = 1]>>,
     <<[All EXCEPT !.since = 2, !.until = 3]>>,
     <<[All EXCEPT !.kinds = <<1>>], [All EXCEPT !.kinds = <<7>>]>>,
     <<[All EXCEPT !.kinds = <<1>>], [All EXCEPT !.kinds = <<7>>, !.since = 3]>>}

-----------------------------------------------------------------------------
\* The Marmot service: two events of others, one of them behind the overlap of
\* the other, an own one between them, and a thread of one message.
MCMessage == 1..3
MCTime == <<1, 3, 2>>

\* "syncs": two syncs, and no file.  "file": the file and crashes, with the
\* polls and the sync of the join.
ThreadCorner ==
    IF part = "syncs" THEN ~(writing').any /\ crashes' = 0
    ELSE /\ 2 \notin onRelay'
         /\ syncing["once"] = NoSync /\ (syncing')["once"] # NoSync => member' # member

\* One sync and two accepts, two syncs and one accept, or one of each, the file
\* and a crash.
InviteCorner ==
    /\ part # "fetches" => (fetching')["init"] = NoFetch
    /\ part # "accepts" => (accepting')["second"] = NoAccept
    /\ part # "invite" => restarts' = 0 /\ (stored').status = "gone"

-----------------------------------------------------------------------------
\* The blind peering manager.
\* "handlers": two of them, and the entry of the relay.  "mirrors": one handler,
\* the tables, the file and a crash, before which the writes that leave the file
\* behind the tables are.  The others have one handler, one entry and
\* no timer of the file, and: publications, the refresh and the key, or the hook.
MirrorCorner ==
    /\ part # "publish" => owed' = FALSE
    /\ IF part = "refresh" THEN targets' = {} ELSE backoff' = NoBackoff /\ ~(identity').known
    /\ part # "hook" => hook' = NoHook
    /\ part # "handlers" => (handler')["two"] = Free
    /\ crashed = 0 \/ ~outdated'
    /\ part # "mirrors" => /\ crashed' = 0 /\ mirrorTargets' \subseteq {"relay"}
                          /\ (saves')["timer"] = NoSave
                          /\ outdated' = FALSE

-----------------------------------------------------------------------------
MCvars == <<vars, replayVars, threadVars, inviteVars, blindVars, part>>

MirrorParts == {"handlers", "mirrors", "publish", "refresh", "hook"}

MCInit == /\ Init /\ ReplayInit /\ ThreadInit /\ InviteInit /\ BlindInit
          /\ part \in Parts
          /\ part # "replay" => filters = CHOOSE f \in Subscriptions : TRUE
          /\ part \notin MirrorParts => enabled

MCNext ==
    /\ UNCHANGED part
    /\ \/ part = "writes" /\ Next /\ UNCHANGED <<replayVars, threadVars, inviteVars, blindVars>>
       \/ part = "replay" /\ ReplayNext /\ UNCHANGED <<vars, threadVars, inviteVars, blindVars>>
       \/ /\ part \in {"syncs", "file"} /\ ThreadNext /\ ThreadCorner
          /\ UNCHANGED <<vars, replayVars, inviteVars, blindVars>>
       \/ /\ part \in {"accepts", "fetches", "invite"} /\ InviteNext /\ InviteCorner
          /\ UNCHANGED <<vars, replayVars, threadVars, blindVars>>
       \/ /\ part \in MirrorParts /\ BlindNext /\ MirrorCorner
          /\ UNCHANGED <<vars, replayVars, threadVars, inviteVars>>

MCSpec == MCInit /\ [][MCNext]_MCvars

others == <<replayVars, threadVars, inviteVars, blindVars, part>>

MirrorStep(step) ==
    /\ part \in MirrorParts /\ step /\ MirrorCorner
    /\ UNCHANGED <<vars, replayVars, threadVars, inviteVars, part>>

MCFairSpec ==
    /\ MCSpec
    /\ \A e \in Entries : WF_MCvars(part = "writes" /\ Publish(e) /\ UNCHANGED others)
    /\ \A b \in Buffer : WF_MCvars(part = "writes" /\ Timer(b) /\ UNCHANGED others)
    /\ WF_MCvars(part = "writes" /\ Writable /\ UNCHANGED others)
    /\ WF_MCvars(MirrorStep(ChainRuns("a") \/ RefreshRuns \/ SyncRuns))
    /\ WF_MCvars(MirrorStep(ChainRuns("b") \/ MonitorPolls))
=============================================================================
