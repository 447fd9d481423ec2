------------------------------ MODULE RelayTable ------------------------------
(* What the adapter and the worker know of a relay: its profile with members  *)
(* and tokens, the table of connected relays, and the queue of its writers.   *)
(* They share no state: the profile is read by whatever call, the queue asks  *)
(* whether the relay is live, and a relay is opened and closed there by       *)
(* whatever call.                                                             *)
EXTENDS RelayProfiles, ActiveRelays, WriterQueue

TableConstants == CallsAreNot /\ QueueAssumption

TableSpec == Spec /\ ActiveSpec /\ QueueSpec

(* Every variable has its type, in every part.                                *)
ProfilesTypeOK == TypeOK /\ ActiveTypeOK /\ QueueTypeOK

(* What is known of a relay agrees: whether it is connected, its members and  *)
(* its profile; the writers noted as in sync were added, those put in the     *)
(* queue stay there until then, unless a flush was at work, and a loop serves *)
(* them.                                                                      *)
RelaysAgree == TableAgrees /\ SyncedIsWritten /\ QueuedIsKept /\ QueueIsServed
=============================================================================
