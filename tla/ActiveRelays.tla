------------------------------ MODULE ActiveRelays ------------------------------
(* The table of connected relays (activeRelays, relayMembers) and the calls   *)
(* that change it: joinRelay, disconnectRelay and autoConnectStoredRelays of  *)
(* src/hyperpipe-relay-manager-adapter.mjs, leave-group of src/index.js, and  *)
(* the opening of a RelayManager under the lock of its directory              *)
(* (src/hyperpipe-relay-manager.mjs).                                         *)
(*                                                                            *)
(* One relay with one directory.  A call makes at most one manager, which has *)
(* its name.  A call stops at every await of a file, a lock or the network;   *)
(* other calls run meanwhile.  A relay has a public identifier.               *)
CONSTANTS
  Calls,    \* the calls
  Old,      \* a manager connected before
  Absent    \* no profile, no manager

VARIABLES
  connected,  \* the manager of the relay in activeRelays
  manager,    \* none, waiting, opening, open, broken (half open or closed), closed
  dirLock,    \* fileLocks has the directory
  cachedFor,  \* the names of the relay that relayMembers has
  record,     \* the relay's profile in the file
  call,
  gaveUp,     \* a call has waited for the lock in vain
  crossed     \* what came together: joins, closes, a join and a disconnect, a failure

activeVars == <<connected, manager, dirLock, cachedFor, record, call, gaveUp, crossed>>

Managers == Calls \cup {Old}
BothNames == {"key", "identifier"}
Profiles == [active: BOOLEAN, writer: BOOLEAN]

(* Managers and calls are told apart, and what is there from what is not.     *)
CallsAreNot == Old \notin Calls /\ Absent \notin Calls \cup {Old} \cup Profiles

CallKinds == {"join", "auto", "disconnect", "leave", "members"}
Places == {"idle", "connect", "writer", "mirror", "check", "create", "lock", "opening", "opened",
           "profile", "save", "stored", "close", "read", "mark", "remove", "reading", "end"}
NewCall(kind, place) ==
  [kind |-> kind, at |-> place, using |-> Absent, profile |-> Absent, stored |-> Absent]

At(p, place) == call[p].at = place
Go(p, place) ==
  call' = [call EXCEPT ![p] = IF place = "end" THEN NewCall(call[p].kind, "end")
                              ELSE [@ EXCEPT !.at = place]]
Joining == {"create", "lock", "opening", "opened"}
Disconnecting == {"close", "read", "mark", "remove"}

(* A join that has looked at the table, and has not ended.                    *)
InJoin(p) == call[p].at \in Joining \cup {"profile", "save", "stored"}

-----------------------------------------------------------------------------
(* The stored relay.                                                          *)

Begin(p, kind, place) ==
  /\ At(p, "idle")
  /\ call' = [call EXCEPT ![p].kind = kind, ![p].at = place]

(* autoConnectStoredRelays reads the profiles, then looks at each.            *)
AutoConnect(p) ==
  /\ At(p, "idle") /\ record # Absent
  /\ call' = [call EXCEPT ![p].kind = "auto", ![p].at = "connect", ![p].stored = record]
  /\ UNCHANGED <<connected, manager, dirLock, cachedFor, record, gaveUp, crossed>>

ConnectStored(p) ==
  /\ At(p, "connect")
  /\ IF connected # Absent
       THEN Go(p, "end") /\ UNCHANGED cachedFor
       ELSE Go(p, "writer") /\ cachedFor' = BothNames
  /\ UNCHANGED <<connected, manager, dirLock, record, gaveUp, crossed>>

(* A profile without a valid writer secret may get one from local storage,    *)
(* and is saved as it was read before.                                        *)
RecoverWriter(p) ==
  /\ At(p, "writer")
  /\ \E found \in {FALSE, ~call[p].stored.writer} :
       LET stored == [call[p].stored EXCEPT !.writer = @ \/ found] IN
       /\ record' = IF found THEN stored ELSE record
       /\ call' = [call EXCEPT ![p].at = "mirror", ![p].stored = stored]
  /\ UNCHANGED <<connected, manager, dirLock, cachedFor, gaveUp, crossed>>

(* The profile is read again if the relay's mirror has answered.              *)
FetchMirror(p) ==
  /\ At(p, "mirror")
  /\ \E ok \in BOOLEAN :
       call' = [call EXCEPT ![p].at = "check",
                            ![p].stored = IF ok /\ record # Absent THEN record ELSE @]
  /\ UNCHANGED <<connected, manager, dirLock, cachedFor, record, gaveUp, crossed>>

ConnectThrows(p) ==
  /\ call[p].at \in {"writer", "mirror"} /\ Go(p, "end")
  /\ crossed' = crossed \cup {"failure"}
  /\ UNCHANGED <<connected, manager, dirLock, cachedFor, record, gaveUp>>

-----------------------------------------------------------------------------
(* joinRelay.                                                                 *)

Join(p) ==
  /\ Begin(p, "join", "check")
  /\ UNCHANGED <<connected, manager, dirLock, cachedFor, record, gaveUp, crossed>>

(* The mutant is told that a relay of the table is not in it.                 *)
CheckActiveVariant(p) ==
  /\ At(p, "check") /\ Go(p, "create")
  /\ UNCHANGED <<connected, manager, dirLock, cachedFor, record, gaveUp, crossed>>

CheckActive(p) ==
  /\ At(p, "check")
  /\ IF connected # Absent
       THEN Go(p, "end") /\ UNCHANGED crossed
       ELSE /\ Go(p, "create")
            /\ crossed' = crossed
                 \cup {"joins" : q \in {q \in Calls \ {p} : call[q].at \in Joining}}
                 \cup {"both" : q \in {q \in Calls \ {p} : call[q].at \in Disconnecting}}
  /\ UNCHANGED <<connected, manager, dirLock, cachedFor, record, gaveUp>>

NewManager(p) ==
  /\ At(p, "create") /\ Go(p, "lock")
  /\ manager' = [manager EXCEPT ![p] = "waiting"]
  /\ UNCHANGED <<connected, dirLock, cachedFor, record, gaveUp, crossed>>

(* The mutant does not look whether somebody has the lock.                    *)
TakeLockVariant(p) ==
  /\ At(p, "lock") /\ Go(p, "opening")
  /\ dirLock' = TRUE /\ manager' = [manager EXCEPT ![p] = "opening"]
  /\ UNCHANGED <<connected, cachedFor, record, gaveUp, crossed>>

(* acquireFileLock: five looks, half a second apart.                          *)
TakeLock(p) ==
  /\ At(p, "lock") /\ ~dirLock /\ Go(p, "opening")
  /\ dirLock' = TRUE /\ manager' = [manager EXCEPT ![p] = "opening"]
  /\ UNCHANGED <<connected, cachedFor, record, gaveUp, crossed>>

(* A manager that does not get the lock, or fails to open, releases it.       *)
OpenFails(p) ==
  /\ At(p, "opening") \/ (At(p, "lock") /\ dirLock)
  /\ Go(p, "end")
  /\ gaveUp' = (gaveUp \/ At(p, "lock"))
  /\ dirLock' = FALSE
  /\ manager' = [manager EXCEPT ![p] = "broken"]
  /\ crossed' = crossed \cup {"failure"}
  /\ UNCHANGED <<connected, cachedFor, record>>

Opened(p) ==
  /\ At(p, "opening") /\ Go(p, "opened")
  /\ dirLock' = FALSE
  /\ manager' = [manager EXCEPT ![p] = "open"]
  /\ UNCHANGED <<connected, cachedFor, record, gaveUp, crossed>>

Register(p) ==
  /\ At(p, "opened") /\ Go(p, "profile")
  /\ connected' = p
  /\ UNCHANGED <<manager, dirLock, cachedFor, record, gaveUp, crossed>>

(* A relay without a profile gets one; either is active, and has the writer   *)
(* the join came with, if any.                                                *)
ReadProfile(p) ==
  /\ At(p, "profile")
  /\ \E given \in IF call[p].kind = "auto" THEN {call[p].stored.writer} ELSE BOOLEAN :
       call' = [call EXCEPT
         ![p].at = "save",
         ![p].profile = [active |-> TRUE, writer |-> given \/ (record # Absent /\ record.writer)]]
  /\ UNCHANGED <<connected, manager, dirLock, cachedFor, record, gaveUp, crossed>>

(* The mutant does not set the members of the relay's public identifier.      *)
SaveJoinedVariant(p) ==
  /\ At(p, "save") /\ Go(p, IF call[p].kind = "auto" THEN "stored" ELSE "end")
  /\ record' = call[p].profile
  /\ cachedFor' = cachedFor \cup {"key"}
  /\ UNCHANGED <<connected, manager, dirLock, gaveUp, crossed>>

SaveJoined(p) ==
  /\ At(p, "save") /\ Go(p, IF call[p].kind = "auto" THEN "stored" ELSE "end")
  /\ record' = call[p].profile
  /\ cachedFor' = BothNames
  /\ UNCHANGED <<connected, manager, dirLock, gaveUp, crossed>>

(* autoConnectStoredRelays saves the profile it has, once more.               *)
SaveStored(p) ==
  /\ At(p, "stored") /\ Go(p, "end")
  /\ record' = call[p].stored
  /\ UNCHANGED <<connected, manager, dirLock, cachedFor, gaveUp, crossed>>

(* A failure is reported, the relay stays connected.                          *)
SaveFails(p) ==
  /\ call[p].at \in {"save", "stored"} /\ Go(p, "end")
  /\ crossed' = crossed \cup {"failure"}
  /\ UNCHANGED <<connected, manager, dirLock, cachedFor, record, gaveUp>>

-----------------------------------------------------------------------------
(* disconnectRelay, by itself or in leave-group.                              *)

Disconnect(p) ==
  /\ At(p, "idle") /\ connected # Absent
  /\ \E kind \in {"disconnect", "leave"} :
       call' = [call EXCEPT ![p].kind = kind, ![p].at = "close", ![p].using = connected]
  /\ crossed' = crossed
       \cup {"closes" : q \in {q \in Calls \ {p} : At(q, "close")}}
       \cup {"both" : q \in {q \in Calls \ {p} : InJoin(q) \/ call[q].at \in Disconnecting}}
  /\ UNCHANGED <<connected, manager, dirLock, cachedFor, record, gaveUp>>

LeaveClosed(p) ==
  /\ connected = Absent /\ Begin(p, "leave", "remove")
  /\ crossed' = crossed \cup {"both" : q \in {q \in Calls \ {p} : InJoin(q)}}
  /\ UNCHANGED <<connected, manager, dirLock, cachedFor, record, gaveUp>>

Last(p) == IF call[p].kind = "leave" THEN "remove" ELSE "end"

(* The mutant takes the manager out of the table and leaves it open.          *)
ClosedVariant(p) ==
  /\ At(p, "close") /\ Go(p, "read")
  /\ connected' = Absent
  /\ cachedFor' = cachedFor \ {"key"}
  /\ UNCHANGED <<manager, dirLock, record, gaveUp, crossed>>

(* Whatever manager the table has now is taken out.                           *)
Closed(p) ==
  /\ At(p, "close") /\ Go(p, "read")
  /\ manager' = [manager EXCEPT ![call[p].using] = "closed"]
  /\ connected' = Absent
  /\ cachedFor' = cachedFor \ {"key"}
  /\ UNCHANGED <<dirLock, record, gaveUp, crossed>>

CloseFails(p) ==
  /\ At(p, "close") /\ Go(p, Last(p))
  /\ manager' = [manager EXCEPT ![call[p].using] = "broken"]
  /\ crossed' = crossed \cup {"failure"}
  /\ UNCHANGED <<connected, dirLock, cachedFor, record, gaveUp>>

ReadClosed(p) ==
  /\ At(p, "read")
  /\ IF record = Absent
       THEN Go(p, Last(p)) /\ UNCHANGED cachedFor
       ELSE /\ call' = [call EXCEPT ![p].at = "mark", ![p].profile = record]
            /\ cachedFor' = cachedFor \ {"identifier"}
  /\ UNCHANGED <<connected, manager, dirLock, record, gaveUp, crossed>>

(* The mutant leaves the profile active.                                      *)
MarkInactiveVariant(p) ==
  /\ At(p, "mark") /\ Go(p, Last(p))
  /\ record' = call[p].profile
  /\ UNCHANGED <<connected, manager, dirLock, cachedFor, gaveUp, crossed>>

MarkInactive(p) ==
  /\ At(p, "mark") /\ Go(p, Last(p))
  /\ record' = [call[p].profile EXCEPT !.active = FALSE]
  /\ UNCHANGED <<connected, manager, dirLock, cachedFor, gaveUp, crossed>>

RemoveProfile(p) ==
  /\ At(p, "remove") /\ Go(p, "end")
  /\ crossed' = crossed \cup {"both" : q \in {q \in Calls \ {p} : InJoin(q)}}
  /\ record' = Absent
  /\ UNCHANGED <<connected, manager, dirLock, cachedFor, gaveUp>>

-----------------------------------------------------------------------------
(* getRelayMembers: members that are not there are read from the profile.     *)

AskMembers(p) ==
  /\ At(p, "idle") /\ "key" \notin cachedFor /\ record # Absent
  /\ call' = [call EXCEPT ![p].kind = "members", ![p].at = "reading"]
  /\ UNCHANGED <<connected, manager, dirLock, cachedFor, record, gaveUp, crossed>>

MembersRead(p) ==
  /\ At(p, "reading") /\ Go(p, "end")
  /\ cachedFor' = BothNames
  /\ UNCHANGED <<connected, manager, dirLock, record, gaveUp, crossed>>

-----------------------------------------------------------------------------
ActiveInit ==
  /\ connected \in {Absent, Old}
  /\ manager = [x \in Managers |-> IF x = connected THEN "open" ELSE "none"]
  /\ dirLock = FALSE
  /\ cachedFor = IF connected = Old THEN BothNames ELSE {}
  /\ record \in Profiles \cup {Absent}
  /\ connected = Old => record # Absent /\ record.active
  /\ call = [p \in Calls |-> NewCall("none", "idle")]
  /\ gaveUp = FALSE /\ crossed = {}

ActiveNext ==
  \E p \in Calls :
    \/ AutoConnect(p) \/ ConnectStored(p) \/ RecoverWriter(p) \/ FetchMirror(p) \/ ConnectThrows(p)
    \/ Join(p) \/ CheckActive(p) \/ NewManager(p) \/ TakeLock(p) \/ OpenFails(p) \/ Opened(p)
    \/ Register(p) \/ ReadProfile(p) \/ SaveJoined(p) \/ SaveStored(p) \/ SaveFails(p)
    \/ Disconnect(p) \/ LeaveClosed(p) \/ Closed(p) \/ CloseFails(p)
    \/ ReadClosed(p) \/ MarkInactive(p) \/ RemoveProfile(p)
    \/ AskMembers(p) \/ MembersRead(p)

ActiveSpec == ActiveInit /\ [][ActiveNext]_activeVars

ActiveTypeOK ==
  /\ connected \in Managers \cup {Absent}
  /\ manager \in [Managers -> {"none", "waiting", "opening", "open", "broken", "closed"}]
  /\ cachedFor \subseteq BothNames
  /\ record \in Profiles \cup {Absent}
  /\ \A p \in Calls :
       /\ call[p].kind \in CallKinds \cup {"none"} /\ call[p].at \in Places
       /\ call[p].using \in Managers \cup {Absent}
       /\ {call[p].profile, call[p].stored} \subseteq Profiles \cup {Absent}
  /\ {dirLock, gaveUp} \subseteq BOOLEAN
  /\ crossed \subseteq {"joins", "closes", "both", "failure"}

-----------------------------------------------------------------------------
(* Two managers never open the directory at the same time and the lock is     *)
(* free when none does (acquireFileLock, releaseFileLock) - unless one gave   *)
(* up waiting, which frees the lock of the one that has it.                   *)
DirectoryLocked ==
  \/ gaveUp
  \/ /\ \A x, y \in Managers : manager[x] = "opening" /\ manager[y] = "opening" => x = y
     /\ dirLock = (\E x \in Managers : manager[x] = "opening")

(* An open manager is in the table of relays, or the call that has opened it  *)
(* is about to put it there (activeRelays.set, activeRelays.delete) - unless  *)
(* two joins have found the table empty, or two calls have closed a manager   *)
(* at the same time.                                                          *)
NoManagerLost ==
  crossed \cap {"joins", "closes"} = {} =>
    \A x \in Managers : manager[x] = "open" => connected = x \/ (x \in Calls /\ At(x, "opened"))

(* So no relay has two managers that are open, or one that nobody closes.      *)
RelaysTracked == DirectoryLocked /\ NoManagerLost

(* When nothing runs, a connected relay has its members under both names; it  *)
(* has a profile and a relay whose profile is inactive is one that            *)
(* autoConnectStoredRelays has connected.  A relay that was disconnected is   *)
(* not active in its profile.  Failures, and joins and disconnects that come  *)
(* together, are apart.                                                       *)
TableAgrees ==
  crossed = {} /\ (\A p \in Calls : call[p].at \in {"idle", "end"}) =>
    /\ connected # Absent =>
         /\ cachedFor = BothNames /\ record # Absent
         /\ ~record.active => \E p \in Calls : call[p].kind = "auto"
    /\ connected = Absent /\ record # Absent /\ record.active =>
         \A x \in Managers : manager[x] # "closed"
=============================================================================
