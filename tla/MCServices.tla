----------------------------- MODULE MCServices -----------------------------
(***************************************************************************)
(* Services of the runtime and its bridges that run beside the commands:   *)
(* the unlock automation, the recovery of adapters, the media wall, the    *)
(* event delivery of the agent mesh and a remote plug gateway.  They share *)
(* no state, so a behaviour concerns one of them, chosen at the start: the *)
(* state space is their sum and not their product.                         *)
(***************************************************************************)
EXTENDS UnlockAutomation, AdapterRecovery, MediaWall, EventDelivery, PlugGateways, TLC

VARIABLE facet           \* the service this behaviour is about

CONSTANTS ph1, ph2, dt, plugs, tello, plug1, plug2, drone1

MCEvents == {[phone |-> ph1, kind |-> "unlock", sequence |-> 1],
             [phone |-> ph1, kind |-> "unlock", sequence |-> 3],
             [phone |-> ph1, kind |-> "state", sequence |-> 2],
             [phone |-> dt, kind |-> "power", sequence |-> 1]}
MCProfileOf == plug1 :> plugs @@ plug2 :> plugs @@ drone1 :> tello
MCIntents == 1..2

MCInit ==
    /\ facet \in {"unlock", "recovery", "media", "delivery", "gateways"}
    /\ UnlockInit /\ RecoveryInit /\ MediaInit /\ DeliveryInit /\ GatewaysInit

MCNext ==
    \/ /\ facet = "unlock" /\ UnlockNext
       /\ UNCHANGED <<facet, recoveryVars, mediaVars, deliveryVars, gatewayVars>>
    \/ /\ facet = "recovery" /\ RecoveryNext
       /\ UNCHANGED <<facet, unlockVars, mediaVars, deliveryVars, gatewayVars>>
    \/ /\ facet = "media" /\ MediaNext
       /\ UNCHANGED <<facet, unlockVars, recoveryVars, deliveryVars, gatewayVars>>
    \/ /\ facet = "delivery" /\ DeliveryNext
       /\ UNCHANGED <<facet, unlockVars, recoveryVars, mediaVars, gatewayVars>>
    \/ /\ facet = "gateways" /\ GatewaysNext
       /\ UNCHANGED <<facet, unlockVars, recoveryVars, mediaVars, deliveryVars>>

mcVars == <<facet, unlockVars, recoveryVars, mediaVars, deliveryVars, gatewayVars>>

\* The fairness of each service's own specification, for the behaviours about it.
MCFairness ==
    /\ WF_unlockVars(facet = "unlock" /\ Serve)
    /\ WF_unlockVars(facet = "unlock" /\ FinishEvent)
    /\ WF_recoveryVars(facet = "recovery" /\ MaintenanceGoesOn)
    /\ WF_recoveryVars(facet = "recovery" /\ TutorGoesOn)
    /\ SF_recoveryVars(facet = "recovery" /\ PassTakesLock)
    /\ \A c \in Cameras : WF_mediaVars(facet = "media" /\ PublisherStep(c))
    /\ \A c \in Robots : WF_mediaVars(facet = "media" /\ Capture(c))
    /\ WF_deliveryVars(facet = "delivery" /\ Connects)
    /\ WF_deliveryVars(facet = "delivery" /\ Enqueue)
    /\ WF_deliveryVars(facet = "delivery" /\ IntentAcknowledged)
    /\ WF_deliveryVars(facet = "delivery" /\ Flush)
    /\ WF_deliveryVars(facet = "delivery" /\ TakeAck)
    /\ WF_deliveryVars(facet = "delivery" /\ RuntimeGoesOn)
    /\ \A c \in Operators : WF_gatewayVars(facet = "gateways" /\ CallGoesOn(c))

MCSpec == MCInit /\ [][MCNext]_mcVars /\ MCFairness
=============================================================================
