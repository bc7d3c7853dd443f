------------------------------ MODULE MCDevices ------------------------------
(***************************************************************************)
(* The bridges of the devices: the Lego hub and its adapter, the ground    *)
(* robots, the aircraft, the one-shot demonstration, the headset and the   *)
(* Matter plug.  They are processes of their own that share nothing, so a  *)
(* behaviour concerns one of them, chosen at the start: the state space is *)
(* their sum and not their product.                                        *)
(***************************************************************************)
EXTENDS LegoLink, GroundRobots, FleetFlight, BrainDemo, HeadsetBridge, MatterPlug

VARIABLE facet           \* the device this behaviour is about

CONSTANTS da, db

MCOrders == {<<da, db>>, <<db>>}

Facets == {"lego", "ground", "flight", "demo", "headset", "matter"}

\* What is not under way has one initial state.
MCInit ==
    /\ facet \in Facets
    /\ LegoInit /\ GroundInit /\ FlightInit /\ DemoInit /\ HeadInit /\ MatterInit
    /\ facet # "lego" => host = "bridge"
    /\ facet # "ground" => robotKind = "dash"
    /\ facet # "demo" => practice
    /\ facet # "headset" => source = "api"
    /\ facet # "matter" => relay = "off"

MCNext ==
    \/ facet = "lego" /\ LegoNext
       /\ UNCHANGED <<facet, groundVars, flightVars, demoVars, headVars, matterVars>>
    \/ facet = "ground" /\ GroundNext
       /\ UNCHANGED <<facet, legoVars, flightVars, demoVars, headVars, matterVars>>
    \/ facet = "flight" /\ FlightNext
       /\ UNCHANGED <<facet, legoVars, groundVars, demoVars, headVars, matterVars>>
    \/ facet = "demo" /\ DemoNext
       /\ UNCHANGED <<facet, legoVars, groundVars, flightVars, headVars, matterVars>>
    \/ facet = "headset" /\ HeadNext
       /\ UNCHANGED <<facet, legoVars, groundVars, flightVars, demoVars, matterVars>>
    \/ facet = "matter" /\ MatterNext
       /\ UNCHANGED <<facet, legoVars, groundVars, flightVars, demoVars, headVars>>

mcVars == <<facet, legoVars, groundVars, flightVars, demoVars, headVars, matterVars>>

\* The fairness of each device's own specification, for the behaviours about it.
MCFairness ==
    /\ WF_legoVars(facet = "lego" /\ ReportHealth)
    /\ WF_legoVars(facet = "lego" /\ HubPolls(FALSE))
    /\ WF_legoVars(facet = "lego" /\ DriveEnds)
    /\ WF_groundVars(facet = "ground" /\ DeadmanExpires)
    /\ WF_groundVars(facet = "ground" /\ (TickLooks \/ TickSleeps))
    /\ WF_groundVars(facet = "ground" /\ (DeadmanWrites \/ DeadmanReturns))
    /\ WF_groundVars(facet = "ground" /\ PumpStops)
    /\ WF_flightVars(facet = "flight" /\ (SequenceStep \/ LandCall("sequence") \/ LandWait("sequence")))
    /\ WF_flightVars(facet = "flight" /\ (LandCall("stop") \/ LandWait("stop")))
    /\ \A m \in Manual : WF_flightVars(facet = "flight" /\ TelloStep(m))
    /\ WF_demoVars(facet = "demo" /\ Operates)
    /\ WF_demoVars(facet = "demo" /\ (PollAsks \/ PollTells))
    /\ WF_headVars(facet = "headset" /\ (ReadsHeadset \/ EventsEnd))
    /\ WF_headVars(facet = "headset" /\ (TellsWorker \/ WorkerEnded \/ WaitTimesOut))
    /\ WF_matterVars(facet = "matter" /\ (ReadForSetting \/ CurrentRead \/ WriteAnswered \/ VerifyRead
                                          \/ Started \/ (~controller /\ WriteUnanswered)))
    /\ WF_matterVars(facet = "matter" /\ (ReadForPoll \/ PollGoesOn \/ PollRead \/ PollFailed))
    /\ WF_matterVars(facet = "matter" /\ Receive)

MCSpec == MCInit /\ [][MCNext]_mcVars /\ MCFairness

(* What flies by the Brain2Devices service is launched once, stopped as told *)
(* and brought down, and the headset behind it is told of as it is.          *)
BrainDevicesAreSafe == FlightsAreSafe /\ DemoIsSound /\ HeadsetIsTold
=============================================================================
