------------------------------- MODULE JoinPaths -------------------------------
(* What becomes of one relay that is created or joined: the paths of          *)
(* startJoinAuthentication and createRelay, the wait for a writable relay     *)
(* with its late recovery, and the commands that connect, disconnect and      *)
(* leave the relay meanwhile.                                                 *)
(*                                                                            *)
(* Jobs are numbered in the order they begin, and a job's token has its       *)
(* number; token 0 is one from before.  The lock of JoinFlow lets one job     *)
(* run at a time.  The writers that a job adds are in WriterQueue.            *)
EXTENDS Naturals, Sequences

CONSTANTS
  MaxJobs,    \* joins and creations
  MaxCloses,  \* disconnects, those of a leave included
  Nil

VARIABLES
  job,        \* the job at work
  begun,      \* the number of the last job
  succeeded,  \* the last job if it told of its success, unless the relay was left
  active,     \* the relay is in activeRelays
  canWrite,   \* its autobase is writable
  profile,    \* it has a profile
  saved,      \* the user's token in the profile
  store,      \* the user's token in the auth store
  late,       \* lateWriterRecoveryTasks
  leave,      \* where leave-group is
  token,      \* the token the app was last told
  closes,     \* disconnects so far
  seen        \* what happened: see Seen

pathVars == <<job, begun, succeeded, active, canWrite, profile, saved, store, late, leave,
          token, closes, seen>>

Tokens == 0..MaxJobs
Waiting == {"wait", "wait again"}

(* What each kind of job does, in order: an invite whose host is not there,   *)
(* an open join without a host, a join that a host verified, and createRelay. *)
InviteSteps ==
  <<"key", "profile", "token", "store", "open", "token again", "store again", "sync", "wait",
    "writers", "warm", "tell">>
OpenSteps ==
  <<"key", "profile", "token", "store", "open", "token again", "store again", "wait", "warm",
    "tell">>
DirectSteps ==
  <<"key", "profile", "token", "store", "open", "token again", "store again", "wait", "publish",
    "warm", "tell">>
CreateSteps ==
  <<"make", "token again", "store again", "register", "wait", "bootstrap", "route">>
Steps ==
  [invite |-> InviteSteps, open |-> OpenSteps, direct |-> DirectSteps, create |-> CreateSteps]
Paths == DOMAIN Steps

(* What `job` and `late` hold when they are not Nil.                          *)
JobRecords ==
  [id : 1..MaxJobs, path : Paths, expects : BOOLEAN, strict : BOOLEAN, stale : BOOLEAN,
   at : Waiting \cup UNION {{Steps[p][i] : i \in DOMAIN Steps[p]} : p \in Paths}]
LateRecords == [job : 1..MaxJobs, stale : BOOLEAN]

PathConstants ==
  /\ MaxJobs \in Nat /\ MaxCloses \in Nat
  /\ Nil \notin Tokens /\ Nil \notin {"disconnected", "cleared"}
  /\ Nil \notin JobRecords /\ Nil \notin LateRecords

(* The steps that wait for something that this module leaves out: the sync of *)
(* writers, the publication of events and the registration at a gateway.      *)
Passed == {"sync", "writers", "publish", "register"}

(* On the open instance: "owed", a job ended its wait for a writable relay    *)
(* without one; "told", the app was told that the relay is writable;          *)
(* "lapsed", a late recovery ended without; "swallowed", a job found the late *)
(* recovery of a closed instance in its place.  Of the tokens: "raced", one   *)
(* was stored while the relay was being left, or a profile made without one   *)
(* while a job was past saving; "retold", the app was told an older one.      *)
Seen == {"owed", "told", "lapsed", "swallowed", "raced", "retold"}
OfInstance == {"owed", "told", "lapsed", "swallowed"}

PathInit ==
  /\ job = Nil /\ begun = 0 /\ succeeded = Nil /\ active \in BOOLEAN
  /\ canWrite = FALSE
  /\ profile \in BOOLEAN /\ (active => profile)
  /\ saved = (IF profile THEN 0 ELSE Nil) /\ store = saved
  /\ late = Nil /\ leave = Nil /\ token = saved /\ closes = 0 /\ seen = {}

-----------------------------------------------------------------------------
(* The relay, and the commands.                                               *)

(* joinRelayManager of a relay that is not connected, when it succeeds: a     *)
(* profile is made if there is none, without a token.                         *)
Opened(past) ==
  /\ active' = TRUE /\ profile' = TRUE
  /\ canWrite' \in BOOLEAN
  /\ seen' = (seen \ OfInstance) \cup IF ~profile /\ past THEN {"raced"} ELSE {}

(* What a disconnect leaves of the waits for this instance.                   *)
Closed ==
  /\ active' = FALSE /\ canWrite' = FALSE /\ closes' = closes + 1
  /\ job' = IF job # Nil /\ job.at \in Waiting THEN [job EXCEPT !.stale = TRUE] ELSE job
  /\ late' = IF late = Nil THEN late ELSE [late EXCEPT !.stale = TRUE]

(* Saved a token, or what saved it may yet store it.                          *)
PastSaving == job # Nil /\ job.at \notin {"key", "profile", "token", "store", "open", "make"}

(* disconnect-relay.                                                          *)
Disconnect ==
  /\ active /\ closes < MaxCloses /\ Closed
  /\ UNCHANGED <<begun, succeeded, profile, saved, store, leave, token, seen>>

(* join-relay, of a relay the app knows: an error of the manager is told as a *)
(* relay that was joined.                                                     *)
JoinCommand ==
  /\ ~active /\ (job # Nil => job.at # "make") /\ Opened(PastSaving)
  /\ succeeded' = IF profile THEN succeeded ELSE Nil
  /\ UNCHANGED <<job, begun, saved, store, late, leave, token, closes>>

(* The other side adds or removes the user's writer.                          *)
WritersChange ==
  /\ active /\ canWrite' = (IF canWrite THEN FALSE ELSE TRUE)
  /\ UNCHANGED <<job, begun, succeeded, active, profile, saved, store, late, leave, token, closes,
                 seen>>

(* leave-group: the disconnect, whose failure is only reported; the auth      *)
(* store is cleared; the profile goes.                                        *)
LeaveDisconnects ==
  /\ leave = Nil /\ (profile \/ active) /\ leave' = "disconnected"
  /\ \/ active /\ closes < MaxCloses /\ Closed
     \/ UNCHANGED <<job, late, active, canWrite, closes>>
  /\ UNCHANGED <<begun, succeeded, profile, saved, store, token, seen>>

LeaveClears ==
  /\ leave = "disconnected" /\ leave' = "cleared" /\ store' = Nil
  /\ UNCHANGED <<job, begun, succeeded, active, canWrite, profile, saved, late, token, closes,
                 seen>>

LeaveRemoves ==
  /\ leave = "cleared" /\ leave' = Nil
  /\ profile' = FALSE /\ saved' = Nil /\ succeeded' = Nil
  /\ UNCHANGED <<job, begun, active, canWrite, store, late, token, closes, seen>>

-----------------------------------------------------------------------------
(* A job up to its wait.                                                      *)

(* A wait looks at the instance that is active when it begins.                *)
Goes(at) == job' = [job EXCEPT !.at = at, !.stale = at \in Waiting /\ ~active]

Later(n) ==
  LET steps == Steps[job.path]
      i == CHOOSE i \in DOMAIN steps : steps[i] = job.at
  IN steps[i + n]

(* A job begins, if its input is complete.  An invite or an open join may     *)
(* expect a writer; a direct join is strict if it is open and the relay has   *)
(* no gateway.                                                                *)
Begin(path, expects, strict) ==
  /\ job = Nil /\ begun < MaxJobs
  /\ (path = "create" => ~profile /\ ~active /\ begun = 0 /\ leave = Nil /\ store = Nil /\ ~expects)
  /\ (strict => path = "direct")
  /\ begun' = begun + 1
  /\ job' = [id |-> begun', path |-> path, at |-> Head(Steps[path]),
             expects |-> expects, strict |-> strict, stale |-> FALSE]
  /\ UNCHANGED <<succeeded, active, canWrite, profile, saved, store, late, leave, token, closes,
                 seen>>

(* The relay's key: from the invite, the profile, the url or the gateway; of  *)
(* a direct join the host's answer, which has the token too.                  *)
KeyFound ==
  /\ job # Nil /\ job.at = "key" /\ Goes(Later(1))
  /\ UNCHANGED <<begun, succeeded, active, canWrite, profile, saved, store, late, leave, token,
                 closes, seen>>

(* The job ends with an error that the app is told.                           *)
Fails ==
  /\ job # Nil /\ job.at \in {"key", "make"} /\ job' = Nil
  /\ UNCHANGED <<begun, succeeded, active, canWrite, profile, saved, store, late, leave, token,
                 closes, seen>>

(* preseedJoinMetadata: a profile, if there is none.                          *)
Preseed ==
  /\ job # Nil /\ job.at = "profile" /\ Goes(Later(1))
  /\ profile' = TRUE
  /\ UNCHANGED <<begun, succeeded, active, canWrite, saved, store, late, leave, token, closes,
                 seen>>

(* updateRelayAuthToken, under the profiles' lock: nothing without a profile. *)
SaveToken ==
  /\ job # Nil /\ job.at \in {"token", "token again"}
  /\ Goes(Later(IF profile THEN 1 ELSE 2))
  /\ saved' = IF profile THEN job.id ELSE saved
  /\ UNCHANGED <<begun, succeeded, active, canWrite, profile, store, late, leave, token, closes,
                 seen>>

(* The same, after the lock: the auth store.                                  *)
StoreToken ==
  /\ job # Nil /\ job.at \in {"store", "store again"} /\ Goes(Later(1))
  /\ store' = job.id
  /\ seen' = IF saved = job.id /\ leave # "cleared" THEN seen \ {"raced"} ELSE seen \cup {"raced"}
  /\ UNCHANGED <<begun, succeeded, active, canWrite, profile, saved, late, leave, token, closes>>

(* A step that changes nothing here.                                          *)
Pass ==
  /\ job # Nil /\ job.at \in Passed /\ Goes(Later(1))
  /\ UNCHANGED <<begun, succeeded, active, canWrite, profile, saved, store, late, leave, token,
                 closes, seen>>

(* waitForRelayMirrorWarmGate: the relay is warm, or is not open, or time is  *)
(* up; the join goes on.                                                      *)
WarmGate ==
  /\ job # Nil /\ job.at = "warm" /\ Goes(Later(1))
  /\ UNCHANGED <<begun, succeeded, active, canWrite, profile, saved, store, late, leave, token,
                 closes, seen>>

(* publishCreateRelayBootstrapEvents: the first events are published, or the  *)
(* attempts are over; the creation goes on.                                   *)
Bootstrap ==
  /\ job # Nil /\ job.at = "bootstrap" /\ Goes(Later(1))
  /\ UNCHANGED <<begun, succeeded, active, canWrite, profile, saved, store, late, leave, token,
                 closes, seen>>

(* Variant: the token was saved before the relay was opened.                  *)
OpenVariant ==
  /\ job # Nil /\ job.at = "open" /\ Goes("wait")
  /\ \/ ~active /\ Opened(FALSE)
     \/ UNCHANGED <<active, canWrite, profile, seen>>
  /\ UNCHANGED <<begun, succeeded, saved, store, late, leave, token, closes>>

(* joinRelayManager, whose failure the job does not look at.                  *)
OpenRelay ==
  /\ job # Nil /\ job.at = "open" /\ Goes(Later(1))
  /\ \/ ~active /\ Opened(FALSE)
     \/ UNCHANGED <<active, canWrite, profile, seen>>
  /\ UNCHANGED <<begun, succeeded, saved, store, late, leave, token, closes>>

(* createRelay: the relay, its profile, and a token that is stored before it  *)
(* is saved.                                                                  *)
Create ==
  /\ job # Nil /\ job.at = "make" /\ Goes(Later(1)) /\ ~active /\ Opened(FALSE)
  /\ store' = job.id
  /\ UNCHANGED <<begun, succeeded, saved, late, leave, token, closes>>

-----------------------------------------------------------------------------
(* The wait for a writable relay, and the end of a job.                       *)

(* A job has ended its wait in vain.                                          *)
Owed ==
  (seen \ OfInstance) \cup {"owed"} \cup IF late # Nil /\ late.stale THEN {"swallowed"} ELSE {}

(* Variant: only a wait that failed is followed by a late recovery.           *)
FollowVariant(writable, ok) ==
  /\ late' = IF ok \/ (job.path = "direct" /\ ~job.expects) \/ late # Nil THEN late
             ELSE [job |-> job.id, stale |-> job.stale]
  /\ seen' = (IF job.stale \/ (job.path = "direct" /\ ~job.expects) THEN seen ELSE Owed)
  /\ UNCHANGED token

(* The app is told that the relay is writable, or else a late recovery is     *)
(* scheduled, unless the relay has one; for a direct join only if it expects  *)
(* a writer.                                                                  *)
Follow(writable, ok) ==
  IF writable THEN token' = job.id /\ seen' = seen \cup {"told"} /\ UNCHANGED late
  ELSE
    /\ late' = IF (job.path = "direct" /\ ~job.expects) \/ late # Nil THEN late
               ELSE [job |-> job.id, stale |-> job.stale]
    /\ seen' = IF job.stale \/ (job.path = "direct" /\ ~job.expects) THEN seen ELSE Owed
    /\ UNCHANGED token

(* waitForRelayWriterActivation ends: the instance it began with is writable, *)
(* or has the expected writer, or time is up.  A strict join waits again, for *)
(* longer, and then fails.                                                    *)
WaitEnds ==
  /\ job # Nil /\ job.at \in Waiting
  /\ LET writable == ~job.stale /\ canWrite IN
     \E ok \in {writable, writable \/ (job.expects /\ ~job.stale)} :
       IF writable \/ ~job.strict
       THEN Goes(IF job.at = "wait" THEN Later(1) ELSE "publish") /\ Follow(writable, ok)
       ELSE /\ IF job.at = "wait" THEN Goes("wait again") ELSE job' = Nil
            /\ UNCHANGED <<late, token, seen>>
  /\ UNCHANGED <<begun, succeeded, active, canWrite, profile, saved, store, leave, closes>>

(* Success is told, with the job's token.                                     *)
Succeeds ==
  /\ job # Nil /\ job.at \in {"tell", "route"} /\ job' = Nil
  /\ succeeded' = IF profile THEN job.id ELSE Nil
  /\ token' = job.id /\ seen' = seen \ {"retold"}
  /\ UNCHANGED <<begun, active, canWrite, profile, saved, store, late, leave, closes>>

(* A relay was created and its gateway could not be noted: the app is told    *)
(* of an error, and the relay stays.                                          *)
RouteFails ==
  /\ job # Nil /\ job.at = "route" /\ job' = Nil
  /\ UNCHANGED <<begun, succeeded, active, canWrite, profile, saved, store, late, leave, token,
                 closes, seen>>

(* scheduleLateWriterRecovery's task ends: the relay is writable, and the app *)
(* is told with the token of the job that scheduled it ...                    *)
LateTells ==
  /\ late # Nil /\ ~late.stale /\ canWrite /\ late' = Nil
  /\ token' = late.job
  /\ seen' = seen \cup {"told"} \cup IF late.job # begun THEN {"retold"} ELSE {}
  /\ UNCHANGED <<job, begun, succeeded, active, canWrite, profile, saved, store, leave, closes>>

(* Variant: a task that gives up is not forgotten.                            *)
LateLapsesVariant == FALSE /\ UNCHANGED pathVars

(* ... or it gives up.                                                        *)
LateLapses ==
  /\ late # Nil /\ (late.stale \/ ~canWrite) /\ late' = Nil
  /\ seen' = IF late.stale THEN seen ELSE seen \cup {"lapsed"}
  /\ UNCHANGED <<job, begun, succeeded, active, canWrite, profile, saved, store, leave, token,
                 closes>>

-----------------------------------------------------------------------------
JobStep ==
  \/ KeyFound \/ Fails \/ Preseed \/ SaveToken \/ StoreToken \/ Pass \/ WarmGate \/ Bootstrap
  \/ OpenRelay \/ Create
  \/ WaitEnds \/ Succeeds \/ RouteFails
LateStep == LateTells \/ LateLapses
LeaveStep == LeaveClears \/ LeaveRemoves

PathNext ==
  \/ \E path \in Paths, expects, strict \in BOOLEAN : Begin(path, expects, strict)
  \/ JobStep \/ LateStep \/ LeaveStep
  \/ LeaveDisconnects \/ Disconnect \/ JoinCommand \/ WritersChange

(* Requests, files and waits end.                                             *)
PathSpec ==
  /\ PathInit /\ [][PathNext]_pathVars
  /\ WF_pathVars(JobStep) /\ WF_pathVars(LateStep) /\ WF_pathVars(LeaveStep)

-----------------------------------------------------------------------------
(* Every variable has its type.                                               *)
PathTypeOK ==
  /\ job \in {Nil} \cup JobRecords
  /\ begun \in 0..MaxJobs /\ succeeded \in {Nil} \cup 1..MaxJobs
  /\ active \in BOOLEAN /\ canWrite \in BOOLEAN  /\ profile \in BOOLEAN
  /\ {saved, store, token} \subseteq {Nil} \cup Tokens
  /\ late \in {Nil} \cup LateRecords
  /\ leave \in {Nil, "disconnected", "cleared"} /\ closes \in 0..MaxCloses
  /\ seen \subseteq Seen

(* A job that ended its wait before the relay was writable is followed up on  *)
(* this instance: the app was told, or a recovery watches it, unless one gave *)
(* up in time or the recovery of a closed instance stood in its place.        *)
Followed ==
  "owed" \in seen /\ active =>
    "told" \in seen \/ "lapsed" \in seen \/ "swallowed" \in seen \/ (late # Nil /\ ~late.stale)

(* While no job runs and the relay is not being left, the profile and the     *)
(* auth store have the same token; and after a job told of its success they   *)
(* have its token, which the app has too, unless an older job's recovery told *)
(* its own later.  A token stored while the relay was left may be apart.      *)
TokensAgree ==
  job = Nil /\ leave = Nil /\ "raced" \notin seen =>
    /\ saved = store
    /\ succeeded = begun /\ begun # 0 =>
         saved = begun /\ (token = begun \/ "retold" \in seen)

(* Jobs, recoveries and leaves end.                                           *)
Rests == job = Nil /\ late = Nil /\ leave = Nil
=============================================================================
