--------------------------- MODULE MCRelayProfiles ---------------------------
(* The operations on a profile for TLC, on two users, in scenes: the          *)
(* operations of its cast run in a behaviour of a scene, and no other.  In    *)
(* the scene "table" calls change the table of connected relays instead       *)
(* (ActiveRelays), and in "writers" those of a relay change (WriterQueue).    *)
EXTENDS RelayTable, FiniteSets, Functions, TLC

CONSTANT Scenes

VARIABLE scene

MCvars == <<vars, scene, activeVars, queueVars>>

MCUsers == {"u", "v"}

MCKind ==
  "t" :> "token" @@ "a" :> "add" @@ "r" :> "remove" @@ "w" :> "verify" @@ "x" :> "verify" @@
  "s" :> "token" @@ "z" :> "token" @@ "j" :> "join" @@ "n" :> "untoken" @@ "k" :> "stale" @@
  "l" :> "leave"
MCJobs == DOMAIN MCKind
MCUser == [j \in MCJobs |-> IF j \in {"x", "s", "z"} THEN "v" ELSE "u"]
MCTs == [[j \in MCJobs |-> 1] EXCEPT !["a"] = 2, !["r"] = 2, !["w"] = 3]

(* Changes of the member sets and of the tokens that hold the mutex while     *)
(* they read and save; a join and updates of tokens that come before it,      *)
(* meanwhile and after it; operations that hold the mutex while they work and *)
(* such as do not; and few of them, which get in each other's way.            *)
Cast(s) ==
  CASE s = "members" -> <<"a", "r", "w", "x">>
    [] s = "tokens" -> <<"t", "s", "w", "x">>
    [] s = "join" -> <<"j", "t", "s", "z">>
    [] s = "all" -> <<"j", "n", "k", "l">>
    [] s = "untoken" -> <<"n", "s">>
    [] s = "leave" -> <<"l", "k", "s">>
    [] s \in {"table", "writers"} -> <<>>

MCBatches == {{"a", "b"}}

ASSUME TableConstants

(* The calls are alike and come in turn; the third is a join or disconnects,  *)
(* and calls come together in one way.  There are two writers, one of which   *)
(* the relay may refuse, and one sync at a time beside the flush.             *)
TableAllowed ==
  /\ call'["c2"].at # "idle" => call["c1"].at # "idle"
  /\ call'["c3"].at # "idle" => call["c2"].at # "idle"
  /\ call'["c3"].kind # call["c3"].kind =>
       "failure" \notin crossed /\ call'["c3"].kind \notin {"auto", "members"}
  /\ Cardinality(crossed') <= 1

MCInit ==
  /\ Init /\ ActiveInit /\ QueueInit
  /\ scene \in Scenes /\ file.exists = (scene # "join")
  /\ scene # "table" => connected = None /\ record = None
  /\ scene # "writers" => writable

MCNext ==
  /\ \/ scene = "table" /\ ActiveNext /\ TableAllowed /\ UNCHANGED <<vars, queueVars>>
     \/ scene = "writers" /\ QueueNext /\ UNCHANGED <<vars, activeVars>>
     \/ /\ scene \notin {"table", "writers"}
        /\ Next /\ UNCHANGED <<activeVars, queueVars>>
        /\ \A j \in Jobs \ Range(Cast(scene)) : job'[j] = Ready
        /\ restarts' = 0 \/ scene \in {"members", "tokens", "join"}
  /\ UNCHANGED scene

(* File operations end, and so does what an operation does between them; the  *)
(* loop of the writers' queue ticks, and a flush ends.  The fairness of the   *)
(* i-th of them in each scene is stated together.                             *)
Continues(i) ==
  \/ /\ i <= Len(Cast(scene)) /\ Continue(Cast(scene)[i])
     /\ UNCHANGED <<scene, activeVars, queueVars>>
  \/ /\ scene = "writers" /\ UNCHANGED <<scene, vars, activeVars>>
     /\ \/ i = 1 /\ LoopTick
        \/ i = 2 /\ Works("flush")

MCSpec == MCInit /\ [][MCNext]_MCvars /\ \A i \in 1..4 : WF_MCvars(Continues(i))

(* What is begun ends: operations on profiles do, and writers do not wait for *)
(* a relay that can be written.                                               *)
Ends == JobsEnd /\ []<>QueueServed
=============================================================================
