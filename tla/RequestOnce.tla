----------------------------- MODULE RequestOnce -----------------------------
(* What a caller of sendRequest may rely on, whatever the connection does: a  *)
(* call settles once, it succeeds only with the answer the other side gave to *)
(* this very call, and the other side answers a call at most once.            *)
EXTENDS Naturals

CONSTANT Calls

VARIABLES call,       \* what the caller's promise is: new, waiting, resolved, rejected
          answered    \* calls the other side has answered

vars == <<call, answered>>

Init == call = [c \in Calls |-> "new"] /\ answered = {}

Start(c) ==
  /\ call[c] = "new"
  /\ call' = [call EXCEPT ![c] = "waiting"]
  /\ UNCHANGED answered

(* The other side answers, perhaps after the caller gave up.                  *)
Serve(c) ==
  /\ call[c] # "new" /\ c \notin answered
  /\ answered' = answered \cup {c}
  /\ UNCHANGED call

Resolve(c) ==
  /\ call[c] = "waiting" /\ c \in answered
  /\ call' = [call EXCEPT ![c] = "resolved"]
  /\ UNCHANGED answered

(* A timeout rejects one call, a closed channel every call that waits.        *)
Reject(S) ==
  /\ S # {}
  /\ \A c \in S : call[c] = "waiting"
  /\ call' = [c \in Calls |-> IF c \in S THEN "rejected" ELSE call[c]]
  /\ UNCHANGED answered

Next ==
  \/ \E c \in Calls : Start(c) \/ Serve(c) \/ Resolve(c)
  \/ \E S \in SUBSET Calls : Reject(S)

Spec == Init /\ [][Next]_vars
=============================================================================
