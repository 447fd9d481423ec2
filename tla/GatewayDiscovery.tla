-------------------------- MODULE GatewayDiscovery --------------------------
(* What a peer knows of one public gateway that is reached with a shared      *)
(* secret (PublicGatewayDiscoveryClient): the announcements of two sources,   *)
(* the secret fetched from the address announced and checked against the hash *)
(* announced, and the catalog of gateways that would host a relay             *)
(* (GatewayService 885-985).  Every change makes GatewayService look at the   *)
(* gateways again, and that fetches a secret that is missing.                 *)
EXTENDS Naturals

CONSTANTS
  Hashes,        \* the hashes of secrets
  NoHash,        \* no secret, or an announcement without a hash
  MaxAnnounces, MaxServed   \* bounds: announcements, changes of the secret served

DiscoveryConstants == NoHash \notin Hashes /\ MaxAnnounces \in Nat /\ MaxServed \in Nat

VARIABLES
  sources,       \* entry.sources: hash and freshness of each announcement
  secretHash,    \* entry.secretHash
  secret,        \* entry.sharedSecret, told apart by its hash
  verified,      \* entry.secretHashVerified
  fetching,      \* entry.fetchPromise
  orphans,       \* whether a fetch of an entry that was removed is under way
  look,          \* whether GatewayService is to look at the gateways
  hosting,       \* gatewayAccessCatalog of the gateway
  probed,        \* gatewayAccessProbeInflight of the gateway
  served,        \* the secret that the gateway serves, NoHash while it fails
  announces, changesServed

discoveryVars == <<sources, secretHash, secret, verified, fetching, orphans, look, hosting,
                   probed, served, announces, changesServed>>

SourceNames == {"nostr", "hyperswarm"}
Ages == {"none", "fresh", "expired"}
NoSource == [age |-> "none", hash |-> NoHash]
AnyHash == Hashes \union {NoHash}

DiscoveryTypeOK ==
  /\ sources \in [SourceNames -> [age : Ages, hash : AnyHash]]
  /\ {secretHash, secret, served} \subseteq AnyHash
  /\ {verified, fetching, orphans, look, probed} \subseteq BOOLEAN
  /\ hosting \in {"none", "unknown", "approved"}
  /\ announces \in 0..MaxAnnounces /\ changesServed \in 0..MaxServed

DiscoveryInit ==
  /\ sources = [s \in SourceNames |-> NoSource]
  /\ secretHash = NoHash /\ secret = NoHash /\ verified = FALSE
  /\ fetching = FALSE /\ orphans = FALSE /\ look = FALSE
  /\ hosting = "none" /\ probed = FALSE /\ served \in AnyHash
  /\ announces = 0 /\ changesServed = 0

Exists == \E s \in SourceNames : sources[s].age # "none"
Fresh == \E s \in SourceNames : sources[s].age = "fresh"

-----------------------------------------------------------------------------
(* selectActiveSource: a fresh announcement of Nostr, one of Hyperswarm, or   *)
(* the expired one that was seen last.                                        *)
Active(src) ==
  LET fresh == {s \in SourceNames : src[s].age = "fresh"}
      known == {s \in SourceNames : src[s].age # "none"}
  IN IF "nostr" \in fresh THEN {"nostr"} ELSE IF fresh # {} THEN fresh ELSE known

(* Variant: the secret stays whatever hash is announced.                      *)
RefreshEntryVariant == \E s \in Active(sources') :
  secretHash' = sources'[s].hash /\ UNCHANGED <<secret, verified>>

(* refreshGatewayEntry: a secret of another hash is dropped.                  *)
RefreshEntry == \E s \in Active(sources') :
  LET hash == sources'[s].hash
      stale == secretHash # NoHash /\ secretHash # hash
  IN /\ secretHash' = hash
     /\ secret' = IF stale THEN NoHash ELSE secret
     /\ verified' = (verified /\ ~stale)

(* ensureSecretFetched: a fetch under way is not followed by another, and a   *)
(* verified secret is fetched again only when it is old.                      *)
Ensure(known) ==
  fetching' \in IF fetching THEN {TRUE} ELSE IF known THEN BOOLEAN ELSE {TRUE}

Announce == \E s \in SourceNames, hash \in AnyHash :
  /\ announces < MaxAnnounces /\ announces' = announces + 1
  /\ sources' = [sources EXCEPT ![s] = [age |-> "fresh", hash |-> hash]]
  /\ RefreshEntry
  /\ IF hash = NoHash \/ (secret' # NoHash /\ verified' /\ secretHash' = hash)
     THEN UNCHANGED fetching
     ELSE Ensure(secret' # NoHash /\ verified')
  /\ look' = TRUE
  /\ UNCHANGED <<orphans, hosting, probed, served, changesServed>>

SourceExpires == \E s \in SourceNames :
  /\ sources[s].age = "fresh"
  /\ sources' = [sources EXCEPT ![s].age = "expired"]
  /\ UNCHANGED <<secretHash, secret, verified, fetching, orphans, look, hosting, probed,
                 served, announces, changesServed>>

(* cleanupExpired drops sources that expired long ago, and an entry without   *)
(* any; a fetch for it goes on and changes nothing.  A change of the sources  *)
(* is told, also one of the active source, which may leave the hash.          *)
CleanUpExpired == \E old \in SUBSET {s \in SourceNames : sources[s].age = "expired"} :
  /\ sources' = [s \in SourceNames |-> IF s \in old THEN NoSource ELSE sources[s]]
  /\ IF \E s \in SourceNames : sources'[s].age # "none"
     THEN RefreshEntry /\ UNCHANGED <<fetching, orphans>>
     ELSE /\ Exists /\ secretHash' = NoHash /\ secret' = NoHash /\ verified' = FALSE
          /\ fetching' = FALSE /\ orphans' = (orphans \/ fetching)
  /\ look' \in IF old # {} \/ secretHash' # secretHash THEN {TRUE} ELSE {look, TRUE}
  /\ UNCHANGED <<hosting, probed, served, announces, changesServed>>

(* Variant: nobody is told of a fetch that fails.                             *)
FetchEndsVariant ==
  /\ fetching /\ fetching' = FALSE
  /\ IF served = NoHash \/ (secretHash # NoHash /\ served # secretHash)
     THEN secret' = NoHash /\ verified' = FALSE /\ UNCHANGED look
     ELSE secret' = served /\ verified' = (served = secretHash) /\ look' = TRUE
  /\ UNCHANGED <<sources, secretHash, orphans, hosting, probed, served, announces, changesServed>>

(* The secret arrives, or the fetch fails: a secret that is not that of the   *)
(* hash announced by now is refused.                                          *)
FetchEnds ==
  /\ fetching /\ fetching' = FALSE
  /\ IF served = NoHash \/ (secretHash # NoHash /\ served # secretHash)
     THEN secret' = NoHash /\ verified' = FALSE
     ELSE secret' = served /\ verified' = (served = secretHash)
  /\ look' = TRUE
  /\ UNCHANGED <<sources, secretHash, orphans, hosting, probed, served, announces, changesServed>>

OrphanEnds ==
  /\ orphans /\ orphans' = FALSE /\ look' = TRUE
  /\ UNCHANGED <<sources, secretHash, secret, verified, fetching, hosting, probed, served,
                 announces, changesServed>>

-----------------------------------------------------------------------------
(* GatewayService looks at the gateways: a secret is wanted for the settings  *)
(* and for the routes, and it is asked whether the gateway would host.  The   *)
(* answer for a gateway with a shared secret is there at once, so that the    *)
(* probe is kept as being under way after it has ended, and is not repeated.  *)
Look ==
  /\ look /\ look' = FALSE
  /\ IF Fresh THEN Ensure(secret # NoHash /\ verified) ELSE UNCHANGED fetching
  /\ IF Exists /\ ~probed
     THEN /\ hosting' = IF secret # NoHash THEN "approved" ELSE "unknown"
          /\ probed' = TRUE
     ELSE UNCHANGED <<hosting, probed>>
  /\ UNCHANGED <<sources, secretHash, secret, verified, orphans, served, announces, changesServed>>

(* The gateway serves another secret, or fails for a while.                   *)
Serve ==
  /\ changesServed < MaxServed /\ changesServed' = changesServed + 1
  /\ served' \in AnyHash \ {served}
  /\ UNCHANGED <<sources, secretHash, secret, verified, fetching, orphans, look, hosting,
                 probed, announces>>

DiscoveryNext == Announce \/ SourceExpires \/ CleanUpExpired \/ FetchEnds \/ OrphanEnds \/ Look \/ Serve

-----------------------------------------------------------------------------
(* A secret that counts as verified is that of the hash announced, whatever   *)
(* was announced while it was fetched (438, 522-526).                         *)
SecretsVerified == verified => secret # NoHash /\ secret = secretHash

(* While the gateway serves the secret it announces, the secret becomes       *)
(* known, also when a fetch for an older announcement was under way (496,     *)
(* 543): the end of each fetch is looked at again.                            *)
SecretComes == []<>(Fresh /\ served # NoHash /\ secretHash = served => verified)

DiscoverySpec ==
  /\ DiscoveryInit /\ [][DiscoveryNext]_discoveryVars
  /\ WF_discoveryVars(FetchEnds) /\ WF_discoveryVars(Look)
==============================================================================
