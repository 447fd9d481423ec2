---------------------------- MODULE EventServices ----------------------------
\* What handles the events of a relay and of a member: the writes and the polls
\* of the event processor, the conversations and the invites of the Marmot
\* service, and the blind peering manager.  They share no state; each runs by
\* itself.
EXTENDS RelayPendingWrites, RelayReplay, MarmotThreads, MarmotInvites, BlindPeering

ServiceConstants ==
    EventAssumption /\ ThreadAssumption /\ InviteAssumption /\ BlindAssumption

ServicesSpec == Spec /\ ReplaySpec /\ ThreadSpec /\ InviteSpec /\ BlindSpec

\* Every variable has its type, in every service.
ProcessorTypeOK ==
    TypeOK /\ ReplayTypeOK /\ ThreadTypeOK /\ InviteTypeOK /\ BlindTypeOK

\* What a client gets of a relay is right: a poll answers all that its filters
\* ask for, and a single filter nothing twice.
AnswersAreExact == PollIsComplete /\ SingleFilterOnce
=============================================================================
