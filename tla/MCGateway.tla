------------------------------ MODULE MCGateway ------------------------------
(* The gateway service and the pool of writers that joins take from, for TLC, *)
(* in scenes side by side: a behaviour is one of WriterPool with three        *)
(* invitations of a relay whose profile always allows a pool ("busy"), or     *)
(* with two, one writer more and a profile that may not ("refused"), or one   *)
(* of GatewaySockets, GatewayTokens or GatewayDiscovery.                      *)
(*                                                                            *)
(* A client of the local gateway subscribes once and again, closes the        *)
(* subscription and publishes.  Of the tokens, two calls at a time and the    *)
(* timer's refresh run, with a second login.  A gateway is announced three    *)
(* times and changes its secret twice.                                        *)
EXTENDS GatewayService

ASSUME ServiceConstants

VARIABLE scene

gatewayVars == <<socketVars, tokenVars, discoveryVars>>
MCvars == <<vars, gatewayVars, scene>>

(* The commands are alike but for their numbers: they come in that order.     *)
InOrder == \A c, d \in Claims : c < d /\ claim[c] = "idle" => claim'[d] = "idle"

(* So are the two callers: the change of the settings, the calls of the API   *)
(* and those that keep the pool warm are of "a".  The second login comes with *)
(* a token to be replaced.                                                    *)
SecondSyncs ==
  /\ task'["b"].pc # "config" /\ task'["b"].why \notin {"warm", "api"}
  /\ auth = 1 /\ auth' = 2 => token.id # 0

(* No call of the pool is refused but by the lock.                            *)
ProfileAllows ==
  \A e \in Calls :
    ensure[e].pc = "profile" /\ ensure'[e].pc = "off" => lock \/ restarts' # restarts

InPool(A) ==
  /\ scene \in {"busy", "refused"} /\ A /\ UNCHANGED <<gatewayVars, scene>>
  /\ \/ scene = "busy" /\ ProfileAllows /\ made' < MaxWriters
     \/ scene = "refused" /\ claim'[3] = "idle"
InSockets(A) == scene = "sockets" /\ A /\ UNCHANGED <<vars, tokenVars, discoveryVars, scene>>
InTokens(A) == scene = "tokens" /\ A /\ UNCHANGED <<vars, socketVars, discoveryVars, scene>>
InDiscovery(A) == scene = "discovery" /\ A /\ UNCHANGED <<vars, socketVars, tokenVars, scene>>

MCInit ==
  /\ Init /\ SocketInit /\ TokenInit /\ DiscoveryInit
  /\ scene \in {"busy", "refused", "sockets", "tokens", "discovery"}
  /\ scene # "discovery" => served = "none"

MCNext ==
  \/ InPool(Next) /\ InOrder
  \/ InSockets(SocketNext)
  \/ InTokens(TokenNext) /\ SecondSyncs
  \/ InDiscovery(DiscoveryNext)

(* I/O ends: a profile is read, the file is read, a writer is added or not; a *)
(* peer or a gateway answers or the request fails, and timers fire.  As a     *)
(* behaviour is of one scene, fairness of one action of each is fairness of   *)
(* their disjunction, which costs TLC less.                                   *)
MCSpec ==
  /\ MCInit /\ [][MCNext]_MCvars
  /\ WF_MCvars(\/ InPool(CallStep(<<"claim", 1>>))
               \/ InSockets(HandlerStep) \/ InTokens(TaskStep("a"))
               \/ InDiscovery(FetchEnds))
  /\ WF_MCvars(\/ InPool(CallStep(<<"claim", 2>>))
               \/ InSockets(PollStep) \/ InTokens(TaskStep("b"))
               \/ InDiscovery(Look))
  /\ WF_MCvars(\/ InPool(CallStep(<<"claim", 3>>))
               \/ InSockets(LoopFires \/ LoopAgain)
               \/ InTokens(TaskStep("t")))
  /\ WF_MCvars(InPool(CallStep(<<"topup", 1>>)) \/ InTokens(TimerFires))
  /\ \A c \in Claims \ {1} : WF_MCvars(InPool(CallStep(<<"topup", c>>)))
  /\ \A c \in Claims : WF_MCvars(InPool(ClaimStep(c)))
  /\ WF_MCvars(Loaded /\ UNCHANGED <<gatewayVars, scene>>)

(* Nobody waits for ever: commands are answered, a subscription does not stay *)
(* pending with a peer that answers, nor a token with the gateway off, and a  *)
(* secret that is served comes.                                               *)
Comes ==
  /\ Answered
  /\ PendingEnds
  /\ TokensEnd
  /\ SecretComes
=============================================================================
