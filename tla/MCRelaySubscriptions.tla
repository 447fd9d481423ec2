------------------------ MODULE MCRelaySubscriptions ------------------------
\* RelaySubscriptions for TLC: three corners of one instance, which a behaviour
\* keeps to.  "gaps": two connections of a client, one subscription, two events.
\* c1 or c2: a plain, a one-shot and a timeline subscription on that connection.
\* "tokens": a connection of a client without a token.
EXTENDS RelaySubscriptions, TLC

CONSTANTS c1, c2, c3, k1, k2, notes, fetch, tl, f1, e1, e2, h1, h2, Scenes

Owner == [c \in Conn |-> IF c = c3 THEN k2 ELSE k1]
OneFilter == [s \in Sub |-> {f1}]
StampOf == [e \in Event |-> IF e = e1 THEN 1 ELSE 2]
Matching == [f \in Filter |-> Event]

AllScenes == {"gaps", "tokens", c1, c2}
OneScene == {c1}

VARIABLE scene

MCvars == <<vars, scene>>

Busy == {h \in Handler : job[h].pc # "idle"}

OnlyOn(C) ==
    /\ \A h \in Busy : job[h].conn \in C
    /\ \A d \in Conn \ C : conn[d] = Empty

InScene ==
    /\ scene # "gaps" => log = {}
    /\ scene \notin {c1, c2} => \A h \in Busy : job[h].sub \in {notes, None}
    /\ \/ scene = "gaps" /\ OnlyOn(Conn \ {c3})
       \/ scene = "tokens" /\ OnlyOn({c3})
       \/ scene \in {c1, c2} /\ OnlyOn({scene})

MCInit == Init /\ scene \in Scenes
MCNext == Next /\ UNCHANGED scene /\ InScene'
MCSpec == MCInit /\ [][MCNext]_MCvars

Interchangeable == Permutations({h1, h2}) \cup Permutations({c1, c2})
=============================================================================
