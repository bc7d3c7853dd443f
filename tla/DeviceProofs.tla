----------------------------- MODULE DeviceProofs -----------------------------
(***************************************************************************)
(* Proofs about the bridges of the devices: the one-shot demonstration and *)
(* the aircraft of the Brain2Devices service, the ground robots, the       *)
(* Matter plug, the LEGO hub and the headset.  The bridges share nothing,  *)
(* so each has an inductive invariant and a section of its own here.       *)
(***************************************************************************)
EXTENDS BrainDemo, FleetFlight, GroundRobots, MatterPlug, LegoLink, HeadsetBridge,
        SequenceTheorems, TLAPS

-----------------------------------------------------------------------------
(* The one-shot demonstration. *)

TriggerCommands == TriggerArms \cup TriggerStops
StopSteps == {"read", "disarm", "cancel", "look", "tell"}
DemoSteps == {"idle", "accepted", "arm"} \cup StopSteps

Quiet == ~trigger /\ sequence = "none"
Calm == ~trigger /\ (sequence = "flying" => slipped)

\* The trigger and the flight exclude each other, and a simulation never flies.
AirOK ==
    /\ practice \in BOOLEAN /\ trigger \in BOOLEAN /\ slipped \in BOOLEAN
    /\ sequence \in {"none", "flying", "ending"}
    /\ trigger => sequence = "none"
    /\ practice => sequence = "none"

Recvs == [step : DemoSteps, by : TriggerCommands \cup {"none", "frame", "close"},
          got : DemoStatus]

DemoTypes ==
    /\ demoBridge \in {"up", "closing", "down"}
    /\ demoRecv \in Recvs
    /\ demoPoll \in [step : {"asleep", "asked"}, got : DemoStatus]
    /\ demoShown \in DemoStatus /\ demoSeen \subseteq TriggerCommands
    /\ demoLeft \subseteq {"arm", "disarm", "cancel"}
    /\ told \in {"no", "looked", "yes"} /\ loose \in BOOLEAN

\* Only the stop of a closing bridge is its own, and no command that has
\* succeeded is under way again.
BridgeShape ==
    /\ demoRecv.step = "idle" <=> demoRecv.by = "none"
    /\ demoRecv.step = "idle" => demoRecv.got = Neither
    /\ demoBridge = "down" => demoRecv.step = "idle"
    /\ demoBridge = "closing" <=> demoRecv.by = "close"
    /\ demoRecv.by = "close" => demoRecv.step \in StopSteps
    /\ demoRecv.step \in {"accepted", "arm"}
         => demoRecv.by \in TriggerCommands \ demoSeen

\* What a stop has read and found at rest is at rest until an arm comes.
ToldIsSo ==
    /\ told = "looked" => demoRecv.step = "tell" /\ (demoRecv.got = Neither => Quiet)
    /\ told = "yes" => Quiet

\* How far the stop of a closing bridge has come.
ClosingStops ==
    /\ demoRecv.by = "close" /\ ~loose
         => /\ demoRecv.step = "disarm" => (sequence = "flying" => slipped)
            /\ demoRecv.step = "cancel" => ~trigger
            /\ demoRecv.step \in {"look", "tell"} => Calm
    /\ demoBridge = "down" /\ ~loose => Calm

DemoInv == AirOK /\ DemoTypes /\ BridgeShape /\ ToldIsSo /\ ClosingStops /\ ArmsOnce

\* A request keeps the exclusion, and only an arm puts an end to rest.
LEMMA RequestKeepsAir ==
    ASSUME AirOK, UNCHANGED practice, NEW r \in {"arm", "disarm", "cancel"},
           Does(r) \/ UNCHANGED airVars
    PROVE  /\ AirOK' /\ UNCHANGED slipped
           /\ r # "arm" => /\ trigger' => trigger
                           /\ sequence' = "flying" => sequence = "flying"
                           /\ sequence = "none" => sequence' = "none"
<1>1. CASE UNCHANGED airVars BY <1>1 DEF airVars, AirOK
<1>2. CASE Does(r)
  <2>1. CASE r = "arm" BY <1>2, <2>1 DEF Does, AirOK
  <2>2. CASE r = "disarm" BY <1>2, <2>2 DEF Does, AirOK
  <2>3. CASE r = "cancel" BY <1>2, <2>3 DEF Does, AirOK
  <2> QED BY <2>1, <2>2, <2>3
<1> QED BY <1>1, <1>2

\* What the service says of itself, as the bridge reads it.
LEMMA WhatIsRead ==
    ASSUME AirOK
    PROVE  /\ Projected \in DemoStatus /\ (Projected = Neither => Quiet)
           /\ Projected.armed = trigger /\ Projected.flies = (sequence # "none")
BY DEF AirOK, Projected, DemoStatus, Neither, Quiet

LEMMA DemoInvInit == DemoInit => DemoInv
<1> SUFFICES ASSUME DemoInit PROVE DemoInv
  OBVIOUS
<1>1. AirOK BY DEF DemoInit, AirOK
<1>2. DemoTypes BY <1>1, WhatIsRead
  DEF DemoInit, DemoTypes, DemoStatus, DemoIdle, Asleep, Neither, Recvs, DemoSteps
<1>3. BridgeShape BY DemoAssumption DEF DemoInit, BridgeShape, DemoIdle
<1> QED BY <1>1, <1>2, <1>3 DEF DemoInit, DemoInv, ToldIsSo, ClosingStops, ArmsOnce, DemoIdle

LEMMA DemoInvStep == DemoInv /\ [DemoNext]_demoVars => DemoInv'
<1> SUFFICES ASSUME DemoInv, [DemoNext]_demoVars PROVE DemoInv'
  OBVIOUS
<1> USE DemoAssumption DEF airVars, askVars
<1>a. /\ AirOK /\ DemoTypes /\ BridgeShape /\ ToldIsSo /\ ClosingStops /\ ArmsOnce
      /\ Neither \in DemoStatus /\ Projected \in DemoStatus
  BY WhatIsRead DEF DemoInv, DemoStatus, Neither
<1>b. Asleep \in [step : {"asleep", "asked"}, got : DemoStatus] /\ DemoIdle \in Recvs
  BY <1>a DEF Asleep, DemoIdle, Recvs, DemoSteps
<1>c. ASSUME NEW st \in DemoSteps, NEW g \in DemoStatus
      PROVE  /\ [demoRecv EXCEPT !.step = st] \in Recvs
             /\ [demoRecv EXCEPT !.step = st, !.got = g] \in Recvs
  BY <1>a DEF DemoTypes, Recvs
<1>d. ASSUME NEW st \in DemoSteps, NEW by \in TriggerCommands \cup {"none", "frame", "close"}
      PROVE  [DemoIdle EXCEPT !.step = st, !.by = by] \in Recvs
  BY <1>a DEF DemoIdle, Recvs
<1>1. ASSUME NEW c \in TriggerCommands, RejectCommand(c) PROVE DemoInv'
  <2>1. DemoTypes' BY <1>a, <1>b, <1>1 DEF RejectCommand, DemoTypes
  <2> QED
    BY <1>a, <1>1, <2>1
    DEF RejectCommand, DemoInv, AirOK, BridgeShape, ToldIsSo, ClosingStops, ArmsOnce,
             Quiet, Calm
<1>2. ASSUME NEW c \in TriggerCommands, AcceptCommand(c) PROVE DemoInv'
  <2>1. AirOK' BY <1>a, <1>2 DEF AirOK, AcceptCommand, NotSeen
  <2>2. /\ demoRecv'.step = "accepted" /\ demoRecv'.by = c /\ demoRecv'.got = Neither
        /\ demoBridge = "up" /\ c \notin demoSeen /\ demoRecv.step # "tell"
        /\ UNCHANGED <<demoBridge, demoSeen, airVars, told, loose, repeated>>
    BY <1>a, <1>2 DEF AcceptCommand, NotSeen, DemoIdle, DemoTypes, Recvs
  <2>4. DemoTypes'
    BY <1>a, <1>b, <1>c, <1>d, <1>2 DEF AcceptCommand, NotSeen, DemoTypes, DemoSteps, StopSteps
  <2>5. BridgeShape' /\ ArmsOnce'
    BY <1>a, <2>2, <2>4 DEF BridgeShape, ArmsOnce, StopSteps, DemoTypes, TriggerCommands
  <2>6. ToldIsSo'
    BY <1>a, <2>1, <2>2, <2>4, WhatIsRead DEF ToldIsSo, Quiet, AirOK, BridgeShape, DemoTypes
  <2>7. ClosingStops'
    BY <1>a, <2>1, <2>2, <2>4
    DEF ClosingStops, BridgeShape, StopSteps, Quiet, Calm, AirOK, DemoTypes
  <2> QED BY <2>1, <2>4, <2>5, <2>6, <2>7 DEF DemoInv
<1>3. CASE StopFrame
  <2>1. AirOK' BY <1>a, <1>3 DEF AirOK, StopFrame, BeginsStop
  <2>2. /\ demoRecv'.step = "read" /\ demoRecv'.by = "frame" /\ demoRecv'.got = Neither
        /\ demoBridge = "up" /\ told' = "no"
        /\ UNCHANGED <<demoBridge, demoSeen, trigger, sequence, loose, repeated>>
    BY <1>a, <1>3 DEF StopFrame, BeginsStop, DemoIdle, DemoTypes, Recvs
  <2>4. DemoTypes'
    BY <1>a, <1>b, <1>c, <1>d, <1>3 DEF StopFrame, BeginsStop, DemoTypes, DemoSteps, StopSteps
  <2>5. BridgeShape' /\ ArmsOnce'
    BY <1>a, <2>2, <2>4 DEF BridgeShape, ArmsOnce, StopSteps, DemoTypes, TriggerCommands
  <2>6. ToldIsSo'
    BY <1>a, <2>1, <2>2, <2>4, WhatIsRead DEF ToldIsSo, Quiet, AirOK, BridgeShape, DemoTypes
  <2>7. ClosingStops'
    BY <1>a, <2>1, <2>2, <2>4
    DEF ClosingStops, BridgeShape, StopSteps, Quiet, Calm, AirOK, DemoTypes
  <2> QED BY <2>1, <2>4, <2>5, <2>6, <2>7 DEF DemoInv
<1>4. CASE ExpiresMeanwhile
  <2>1. AirOK' BY <1>a, <1>4 DEF AirOK, ExpiresMeanwhile, ClosesWith, BeginsStop
  <2>2. /\ demoRecv'.step = "read" /\ demoRecv'.by = "close" /\ demoRecv'.got = Neither
        /\ demoBridge' = "closing" /\ told' = "no"
        /\ UNCHANGED <<demoSeen, trigger, sequence, repeated>>
    BY <1>a, <1>4 DEF ExpiresMeanwhile, ClosesWith, BeginsStop, DemoIdle, DemoTypes, Recvs
  <2>4. DemoTypes'
    BY <1>a, <1>b, <1>c, <1>d, <1>4
    DEF ExpiresMeanwhile, ClosesWith, BeginsStop, DemoTypes, DemoSteps, StopSteps
  <2>5. BridgeShape' /\ ArmsOnce'
    BY <1>a, <2>2, <2>4 DEF BridgeShape, ArmsOnce, StopSteps, DemoTypes, TriggerCommands
  <2>6. ToldIsSo'
    BY <1>a, <2>1, <2>2, <2>4, WhatIsRead DEF ToldIsSo, Quiet, AirOK, BridgeShape, DemoTypes
  <2>7. ClosingStops'
    BY <1>a, <2>1, <2>2, <2>4
    DEF ClosingStops, BridgeShape, StopSteps, Quiet, Calm, AirOK, DemoTypes
  <2> QED BY <2>1, <2>4, <2>5, <2>6, <2>7 DEF DemoInv
<1>5. CASE DemoCloses
  <2>1. AirOK' BY <1>a, <1>5 DEF AirOK, DemoCloses, ClosesWith, BeginsStop
  <2>2. /\ demoRecv'.step = "read" /\ demoRecv'.by = "close" /\ demoRecv'.got = Neither
        /\ demoBridge' = "closing" /\ told' = "no"
        /\ UNCHANGED <<demoSeen, trigger, sequence, repeated>>
    BY <1>a, <1>5 DEF DemoCloses, ClosesWith, BeginsStop, DemoIdle, DemoTypes, Recvs
  <2>4. DemoTypes'
    BY <1>a, <1>b, <1>c, <1>d, <1>5
    DEF DemoCloses, ClosesWith, BeginsStop, DemoTypes, DemoSteps, StopSteps
  <2>5. BridgeShape' /\ ArmsOnce'
    BY <1>a, <2>2, <2>4 DEF BridgeShape, ArmsOnce, StopSteps, DemoTypes, TriggerCommands
  <2>6. ToldIsSo'
    BY <1>a, <2>1, <2>2, <2>4, WhatIsRead DEF ToldIsSo, Quiet, AirOK, BridgeShape, DemoTypes
  <2>7. ClosingStops'
    BY <1>a, <2>1, <2>2, <2>4
    DEF ClosingStops, BridgeShape, StopSteps, Quiet, Calm, AirOK, DemoTypes
  <2> QED BY <2>1, <2>4, <2>5, <2>6, <2>7 DEF DemoInv
<1>6. CASE ExecuteCommand /\ demoRecv.by \in TriggerArms
  <2>1. AirOK' BY <1>a, <1>6 DEF AirOK, ExecuteCommand
  <2>2. /\ demoRecv.step = "accepted" /\ demoRecv'.step = "arm" /\ demoRecv'.by = demoRecv.by
        /\ demoRecv'.got = demoRecv.got
        /\ UNCHANGED <<demoBridge, demoSeen, airVars, told, loose, repeated>>
    BY <1>a, <1>6 DEF ExecuteCommand, DemoIdle, DemoTypes, Recvs
  <2>4. DemoTypes'
    <3>1. demoRecv' \in Recvs
      <4>1. demoRecv' = [demoRecv EXCEPT !.step = "arm"] BY <1>6 DEF ExecuteCommand
      <4>2. "arm" \in DemoSteps BY DEF DemoSteps
      <4> QED BY <1>a, <1>c, <4>1, <4>2
    <3>2. UNCHANGED <<demoBridge, demoPoll, demoShown, demoSeen, demoLeft, told, loose>>
      BY <1>6 DEF ExecuteCommand
    <3> QED BY <1>a, <3>1, <3>2 DEF DemoTypes
  <2>5. BridgeShape' /\ ArmsOnce'
    BY <1>a, <2>2, <2>4 DEF BridgeShape, ArmsOnce, StopSteps, DemoTypes, TriggerCommands
  <2>6. ToldIsSo'
    BY <1>a, <2>1, <2>2, <2>4, WhatIsRead DEF ToldIsSo, Quiet, AirOK, BridgeShape, DemoTypes
  <2>7. ClosingStops'
    BY <1>a, <2>1, <2>2, <2>4
    DEF ClosingStops, BridgeShape, StopSteps, Quiet, Calm, AirOK, DemoTypes
  <2> QED BY <2>1, <2>4, <2>5, <2>6, <2>7 DEF DemoInv
<1>7. CASE ExecuteCommand /\ demoRecv.by \notin TriggerArms
  <2>1. AirOK' BY <1>a, <1>7 DEF AirOK, ExecuteCommand, BeginsStop
  <2>2. /\ demoRecv.step = "accepted" /\ demoRecv'.step = "read" /\ demoRecv'.by = demoRecv.by
        /\ told' = "no" /\ UNCHANGED <<demoBridge, demoSeen, trigger, sequence, loose, repeated>>
    BY <1>a, <1>7 DEF ExecuteCommand, BeginsStop, DemoIdle, DemoTypes, Recvs
  <2>3. demoRecv' \in Recvs
    <3>1. demoRecv' = [DemoIdle EXCEPT !.step = "read", !.by = demoRecv.by]
      BY <1>7 DEF ExecuteCommand, BeginsStop
    <3>2. demoRecv.by \in TriggerCommands \cup {"none", "frame", "close"}
      BY <1>a DEF DemoTypes, Recvs
    <3> QED BY <1>d, <3>1, <3>2 DEF DemoSteps, StopSteps
  <2>4. DemoTypes'
    BY <1>a, <1>b, <1>c, <1>d, <1>7, <2>3
    DEF ExecuteCommand, BeginsStop, DemoTypes, DemoSteps, StopSteps
  <2>5. BridgeShape' /\ ArmsOnce'
    BY <1>a, <2>2, <2>4 DEF BridgeShape, ArmsOnce, StopSteps, DemoTypes, TriggerCommands
  <2>6. ToldIsSo'
    BY <1>a, <2>1, <2>2, <2>4, WhatIsRead DEF ToldIsSo, Quiet, AirOK, BridgeShape, DemoTypes
  <2>7. ClosingStops'
    BY <1>a, <2>1, <2>2, <2>4
    DEF ClosingStops, BridgeShape, StopSteps, Quiet, Calm, AirOK, DemoTypes
  <2> QED BY <2>1, <2>4, <2>5, <2>6, <2>7 DEF DemoInv
<1>8. CASE ArmAsks
  <2>1. AirOK' /\ UNCHANGED slipped BY <1>a, <1>8, RequestKeepsAir DEF ArmAsks
  <2>2. /\ demoRecv.step = "arm" /\ demoRecv'.step = "tell" /\ demoRecv'.by = demoRecv.by
        /\ told' = "no" /\ repeated' = (repeated \/ demoRecv.by \in demoSeen)
        /\ UNCHANGED <<demoBridge, demoSeen, loose>>
    BY <1>a, <1>8 DEF ArmAsks, DemoIdle, DemoTypes, Recvs
  <2>3. [armed |-> TRUE, flies |-> FALSE] \in DemoStatus BY DEF DemoStatus
  <2>4. DemoTypes'
    BY <1>a, <1>b, <1>c, <1>d, <1>8, <2>3 DEF ArmAsks, DemoTypes, DemoSteps, StopSteps
  <2>5. BridgeShape' /\ ArmsOnce'
    BY <1>a, <2>2, <2>4 DEF BridgeShape, ArmsOnce, StopSteps, DemoTypes, TriggerCommands
  <2>6. ToldIsSo'
    BY <1>a, <2>1, <2>2, <2>4, WhatIsRead DEF ToldIsSo, Quiet, AirOK, BridgeShape, DemoTypes
  <2>7. ClosingStops'
    BY <1>a, <2>1, <2>2, <2>4
    DEF ClosingStops, BridgeShape, StopSteps, Quiet, Calm, AirOK, DemoTypes
  <2> QED BY <2>1, <2>4, <2>5, <2>6, <2>7 DEF DemoInv
<1>9. CASE StopReads /\ practice
  <2>1. AirOK' BY <1>a, <1>9 DEF AirOK, StopReads
  <2>2. /\ demoRecv.step = "read" /\ demoRecv'.step = "tell" /\ demoRecv'.by = demoRecv.by
        /\ practice /\ told' = "looked" /\ demoRecv'.got = Neither
        /\ ~trigger' /\ UNCHANGED <<sequence, slipped>>
        /\ UNCHANGED <<demoBridge, demoSeen, loose, repeated>>
    BY <1>a, <1>9 DEF StopReads, DemoIdle, DemoTypes, Recvs
  <2>3. demoRecv' \in Recvs
    <3>1. demoRecv' = [demoRecv EXCEPT !.step = "tell", !.got = Neither] BY <1>9 DEF StopReads
    <3> QED BY <1>a, <1>c, <3>1 DEF DemoSteps, StopSteps
  <2>4. DemoTypes'
    BY <1>a, <1>b, <1>c, <1>d, <1>9, <2>3 DEF StopReads, DemoTypes, DemoSteps, StopSteps
  <2>5. BridgeShape' /\ ArmsOnce'
    BY <1>a, <2>2, <2>4 DEF BridgeShape, ArmsOnce, StopSteps, DemoTypes, TriggerCommands
  <2>6. ToldIsSo'
    BY <1>a, <2>1, <2>2, <2>4, WhatIsRead DEF ToldIsSo, Quiet, AirOK, BridgeShape, DemoTypes
  <2>7. ClosingStops'
    BY <1>a, <2>1, <2>2, <2>4
    DEF ClosingStops, BridgeShape, StopSteps, Quiet, Calm, AirOK, DemoTypes
  <2> QED BY <2>1, <2>4, <2>5, <2>6, <2>7 DEF DemoInv
<1>10. CASE StopReads /\ ~practice
  <2>1. AirOK' BY <1>a, <1>10 DEF AirOK, StopReads
  <2>2. /\ demoRecv.step = "read" /\ demoRecv'.by = demoRecv.by
        /\ demoRecv'.step = Remedy(Projected) /\ demoRecv'.got = Projected
        /\ UNCHANGED <<demoBridge, demoSeen, airVars, told, loose, repeated>>
    BY <1>a, <1>10 DEF StopReads, DemoIdle, DemoTypes, Recvs
  <2>3. /\ Remedy(Projected) = IF trigger THEN "disarm"
                                ELSE IF sequence # "none" THEN "cancel" ELSE "look"
        /\ demoRecv' \in Recvs
    <3>1. demoRecv' = [demoRecv EXCEPT !.step = Remedy(Projected), !.got = Projected]
      BY <1>10 DEF StopReads
    <3>2. Remedy(Projected) \in DemoSteps BY <1>a, WhatIsRead DEF Remedy, DemoSteps, StopSteps
    <3>3. demoRecv' \in Recvs BY <1>a, <1>c, <3>1, <3>2
    <3> QED BY <1>a, <3>3, WhatIsRead DEF Remedy
  <2>4. DemoTypes'
    BY <1>a, <1>b, <1>c, <1>d, <1>10, <2>3 DEF StopReads, DemoTypes, DemoSteps, StopSteps
  <2>5. BridgeShape' /\ ArmsOnce'
    BY <1>a, <2>2, <2>3, <2>4 DEF BridgeShape, ArmsOnce, StopSteps, DemoTypes, TriggerCommands
  <2>6. ToldIsSo'
    BY <1>a, <2>1, <2>2, <2>4, WhatIsRead DEF ToldIsSo, Quiet, AirOK, BridgeShape, DemoTypes
  <2>7. ClosingStops'
    BY <1>a, <2>1, <2>2, <2>3, <2>4
    DEF ClosingStops, BridgeShape, StopSteps, Quiet, Calm, AirOK, DemoTypes
  <2> QED BY <2>1, <2>4, <2>5, <2>6, <2>7 DEF DemoInv
<1>11. CASE StopAsks
  <2>0. /\ AirOK' /\ UNCHANGED slipped
        /\ trigger' => trigger
        /\ sequence' = "flying" => sequence = "flying"
        /\ sequence = "none" => sequence' = "none"
    BY <1>a, <1>11, RequestKeepsAir DEF StopAsks
  <2>1. /\ AirOK' /\ UNCHANGED slipped /\ (Quiet => Quiet')
        /\ demoRecv.step = "disarm" => ~trigger' /\ sequence' = sequence
        /\ demoRecv.step = "cancel" => trigger' = trigger /\ sequence' # "flying"
    BY <1>a, <1>11, <2>0 DEF StopAsks, Does, Quiet, AirOK
  <2>2. /\ demoRecv.step \in {"disarm", "cancel"}
        /\ demoRecv'.step = "look" /\ demoRecv'.by = demoRecv.by
        /\ UNCHANGED <<demoBridge, demoSeen, told, loose, repeated>>
    BY <1>a, <1>11 DEF StopAsks, DemoIdle, DemoTypes, Recvs
  <2>4. DemoTypes'
    BY <1>a, <1>b, <1>c, <1>d, <1>11 DEF StopAsks, DemoTypes, DemoSteps, StopSteps
  <2>5. BridgeShape' /\ ArmsOnce'
    BY <1>a, <2>2, <2>4 DEF BridgeShape, ArmsOnce, StopSteps, DemoTypes, TriggerCommands
  <2>6. ToldIsSo'
    BY <1>a, <2>1, <2>2, <2>4, WhatIsRead DEF ToldIsSo, Quiet, AirOK, BridgeShape, DemoTypes
  <2>7. ClosingStops'
    BY <1>a, <2>1, <2>2, <2>4
    DEF ClosingStops, BridgeShape, StopSteps, Quiet, Calm, AirOK, DemoTypes
  <2> QED BY <2>1, <2>4, <2>5, <2>6, <2>7 DEF DemoInv
<1>12. CASE StopLooks
  <2>1. AirOK' BY <1>a, <1>12 DEF AirOK, StopLooks, AsItIsNow
  <2>2. /\ demoRecv.step = "look" /\ demoRecv'.step = "tell" /\ demoRecv'.by = demoRecv.by
        /\ demoRecv'.got = Projected /\ told' = "looked"
        /\ UNCHANGED <<demoBridge, demoSeen, airVars, loose, repeated>>
    BY <1>a, <1>12 DEF StopLooks, AsItIsNow, DemoIdle, DemoTypes, Recvs
  <2>4. DemoTypes'
    BY <1>a, <1>b, <1>c, <1>d, <1>12 DEF StopLooks, AsItIsNow, DemoTypes, DemoSteps, StopSteps
  <2>5. BridgeShape' /\ ArmsOnce'
    BY <1>a, <2>2, <2>4 DEF BridgeShape, ArmsOnce, StopSteps, DemoTypes, TriggerCommands
  <2>6. ToldIsSo'
    BY <1>a, <2>1, <2>2, <2>4, WhatIsRead DEF ToldIsSo, Quiet, AirOK, BridgeShape, DemoTypes
  <2>7. ClosingStops'
    BY <1>a, <2>1, <2>2, <2>4
    DEF ClosingStops, BridgeShape, StopSteps, Quiet, Calm, AirOK, DemoTypes
  <2> QED BY <2>1, <2>4, <2>5, <2>6, <2>7 DEF DemoInv
<1>13. CASE Tells
  <2>1. AirOK' BY <1>a, <1>13 DEF AirOK, Tells
  <2>2. /\ demoRecv.step = "tell" /\ demoRecv'.step = "idle"
        /\ demoRecv'.by = "none" /\ demoRecv'.got = Neither
        /\ demoBridge' = IF demoRecv.by = "close" THEN "down" ELSE demoBridge
        /\ told' \in {"no", "yes"} /\ (told' = "yes" => Quiet)
        /\ UNCHANGED <<airVars, loose, repeated>>
    BY <1>a, <1>13 DEF Tells, DemoIdle, DemoTypes, Recvs, ToldIsSo, Quiet
  <2>3. demoSeen' \subseteq TriggerCommands /\ demoShown' \in DemoStatus /\ demoRecv' \in Recvs
    BY <1>a, <1>b, <1>13 DEF Tells, Remembered, DemoTypes, Recvs, TriggerCommands
  <2>4. DemoTypes'
    BY <1>a, <1>b, <1>c, <1>d, <1>13, <2>3 DEF Tells, DemoTypes, DemoSteps, StopSteps
  <2>5. BridgeShape' /\ ArmsOnce'
    BY <1>a, <2>2, <2>4 DEF BridgeShape, ArmsOnce, StopSteps, DemoTypes, TriggerCommands
  <2>6. ToldIsSo'
    BY <1>a, <2>1, <2>2, <2>4, WhatIsRead DEF ToldIsSo, Quiet, AirOK, BridgeShape, DemoTypes
  <2>7. ClosingStops'
    BY <1>a, <2>1, <2>2, <2>4
    DEF ClosingStops, BridgeShape, StopSteps, Quiet, Calm, AirOK, DemoTypes
  <2> QED BY <2>1, <2>4, <2>5, <2>6, <2>7 DEF DemoInv
<1>14. CASE OperationRaises /\ EndsBridge
  <2>1. AirOK' /\ UNCHANGED slipped
    BY <1>a, <1>14, RequestKeepsAir DEF OperationRaises, DemoRaises
  <2>2. /\ demoBridge' = "closing" /\ demoRecv'.step = "read" /\ demoRecv'.by = "close"
        /\ told' = "no" /\ UNCHANGED <<demoSeen, repeated>>
    BY <1>a, <1>14 DEF OperationRaises, EndsBridge, DemoIdle, DemoTypes, Recvs
  <2>4. DemoTypes'
    BY <1>a, <1>b, <1>c, <1>d, <1>14
    DEF OperationRaises, EndsBridge, DemoTypes, DemoSteps, StopSteps
  <2>5. BridgeShape' /\ ArmsOnce'
    BY <1>a, <2>2, <2>4 DEF BridgeShape, ArmsOnce, StopSteps, DemoTypes, TriggerCommands
  <2>6. ToldIsSo'
    BY <1>a, <2>1, <2>2, <2>4, WhatIsRead DEF ToldIsSo, Quiet, AirOK, BridgeShape, DemoTypes
  <2>7. ClosingStops'
    BY <1>a, <2>1, <2>2, <2>4
    DEF ClosingStops, BridgeShape, StopSteps, Quiet, Calm, AirOK, DemoTypes
  <2> QED BY <2>1, <2>4, <2>5, <2>6, <2>7 DEF DemoInv
<1>15. CASE OperationRaises /\ ~EndsBridge
  <2>1. AirOK' /\ UNCHANGED slipped
    BY <1>a, <1>15, RequestKeepsAir DEF OperationRaises, DemoRaises
  <2>2. /\ demoBridge' = IF demoRecv.by = "close" THEN "down" ELSE demoBridge
        /\ demoRecv.step # "idle" /\ demoRecv'.step = "idle"
        /\ demoRecv'.by = "none" /\ demoRecv'.got = Neither
        /\ told' = "no" /\ loose' = (loose \/ demoRecv.by = "close")
        /\ UNCHANGED <<demoSeen, repeated>>
    BY <1>a, <1>15 DEF OperationRaises, EndsBridge, DemoIdle, DemoTypes, Recvs
  <2>4. DemoTypes'
    BY <1>a, <1>b, <1>c, <1>d, <1>15
    DEF OperationRaises, EndsBridge, DemoTypes, DemoSteps, StopSteps
  <2>5. BridgeShape' /\ ArmsOnce'
    BY <1>a, <2>2, <2>4 DEF BridgeShape, ArmsOnce, StopSteps, DemoTypes, TriggerCommands
  <2>6. ToldIsSo'
    BY <1>a, <2>1, <2>2, <2>4, WhatIsRead DEF ToldIsSo, Quiet, AirOK, BridgeShape, DemoTypes
  <2>7. ClosingStops'
    BY <1>a, <2>1, <2>2, <2>4
    DEF ClosingStops, BridgeShape, StopSteps, Quiet, Calm, AirOK, DemoTypes
  <2> QED BY <2>1, <2>4, <2>5, <2>6, <2>7 DEF DemoInv
<1>16. CASE TriggerFires
  <2>1. AirOK' BY <1>a, <1>16 DEF AirOK, TriggerFires
  <2>2. /\ trigger /\ ~practice /\ ~trigger' /\ sequence' = "flying"
        /\ slipped' = (slipped \/ demoRecv.step \in {"disarm", "cancel", "look", "tell"})
        /\ UNCHANGED <<demoRecv, demoBridge, demoSeen, told, loose, repeated>>
    BY <1>a, <1>16 DEF TriggerFires, DemoIdle, DemoTypes, Recvs
  <2>4. DemoTypes'
    BY <1>a, <1>b, <1>c, <1>d, <1>16 DEF TriggerFires, DemoTypes, DemoSteps, StopSteps
  <2>5. BridgeShape' /\ ArmsOnce'
    BY <1>a, <2>2, <2>4 DEF BridgeShape, ArmsOnce, StopSteps, DemoTypes, TriggerCommands
  <2>6. ToldIsSo'
    BY <1>a, <2>1, <2>2, <2>4, WhatIsRead DEF ToldIsSo, Quiet, AirOK, BridgeShape, DemoTypes
  <2>7. ClosingStops'
    BY <1>a, <2>1, <2>2, <2>4
    DEF ClosingStops, BridgeShape, StopSteps, Quiet, Calm, AirOK, DemoTypes
  <2> QED BY <2>1, <2>4, <2>5, <2>6, <2>7 DEF DemoInv
<1>17. CASE SequenceEnds
  <2>1. AirOK' BY <1>a, <1>17 DEF AirOK, SequenceEnds
  <2>2. /\ sequence' = "none"
        /\ UNCHANGED <<trigger, slipped, demoRecv, demoBridge, demoSeen, told, loose, repeated>>
    BY <1>a, <1>17 DEF SequenceEnds, DemoIdle, DemoTypes, Recvs
  <2>4. DemoTypes'
    BY <1>a, <1>b, <1>c, <1>d, <1>17 DEF SequenceEnds, DemoTypes, DemoSteps, StopSteps
  <2>5. BridgeShape' /\ ArmsOnce'
    BY <1>a, <2>2, <2>4 DEF BridgeShape, ArmsOnce, StopSteps, DemoTypes, TriggerCommands
  <2>6. ToldIsSo'
    BY <1>a, <2>1, <2>2, <2>4, WhatIsRead DEF ToldIsSo, Quiet, AirOK, BridgeShape, DemoTypes
  <2>7. ClosingStops'
    BY <1>a, <2>1, <2>2, <2>4
    DEF ClosingStops, BridgeShape, StopSteps, Quiet, Calm, AirOK, DemoTypes
  <2> QED BY <2>1, <2>4, <2>5, <2>6, <2>7 DEF DemoInv
<1>18. ASSUME NEW r \in {"arm", "disarm", "cancel"}, LeftRequest(r) PROVE DemoInv'
  <2>0. Does(r) \/ UNCHANGED airVars BY <1>18 DEF LeftRequest, DemoRaises
  <2>1. /\ AirOK' /\ UNCHANGED slipped
        /\ r # "arm" => /\ trigger' => trigger
                        /\ sequence' = "flying" => sequence = "flying"
                        /\ sequence = "none" => sequence' = "none"
    BY <1>a, <1>18, <2>0, RequestKeepsAir DEF LeftRequest
  <2>2. /\ loose' = (loose \/ (r = "arm" /\ demoRecv.step # "read"))
        /\ told' = IF r = "arm" THEN "no" ELSE told
        /\ UNCHANGED <<demoRecv, demoBridge, demoSeen, repeated>>
    BY <1>a, <1>18 DEF LeftRequest, DemoIdle, DemoTypes, Recvs
  <2>4. DemoTypes'
    BY <1>a, <1>b, <1>c, <1>d, <1>18 DEF LeftRequest, DemoTypes, DemoSteps, StopSteps
  <2>5. BridgeShape' /\ ArmsOnce'
    BY <1>a, <2>2, <2>4 DEF BridgeShape, ArmsOnce, StopSteps, DemoTypes, TriggerCommands
  <2>6. ToldIsSo'
    BY <1>a, <2>1, <2>2, <2>4, WhatIsRead DEF ToldIsSo, Quiet, AirOK, BridgeShape, DemoTypes
  <2>7. ClosingStops'
    BY <1>a, <2>1, <2>2, <2>4
    DEF ClosingStops, BridgeShape, StopSteps, Quiet, Calm, AirOK, DemoTypes
  <2> QED BY <2>1, <2>4, <2>5, <2>6, <2>7 DEF DemoInv
<1>19. CASE DemoStarts
  <2>1. AirOK' BY <1>a, <1>19 DEF AirOK, DemoStarts
  <2>2. /\ demoBridge = "down" /\ demoBridge' = "up" /\ demoSeen' = {}
        /\ (trigger' => trigger) /\ UNCHANGED <<demoRecv, sequence, slipped, told, loose,
                                                repeated>>
    BY <1>a, <1>19 DEF DemoStarts, DemoIdle, DemoTypes, Recvs
  <2>4. DemoTypes'
    BY <1>a, <1>b, <1>c, <1>d, <1>19 DEF DemoStarts, DemoTypes, DemoSteps, StopSteps
  <2>5. BridgeShape' /\ ArmsOnce'
    BY <1>a, <2>2, <2>4 DEF BridgeShape, ArmsOnce, StopSteps, DemoTypes, TriggerCommands
  <2>6. ToldIsSo'
    BY <1>a, <2>1, <2>2, <2>4, WhatIsRead DEF ToldIsSo, Quiet, AirOK, BridgeShape, DemoTypes
  <2>7. ClosingStops'
    BY <1>a, <2>1, <2>2, <2>4
    DEF ClosingStops, BridgeShape, StopSteps, Quiet, Calm, AirOK, DemoTypes
  <2> QED BY <2>1, <2>4, <2>5, <2>6, <2>7 DEF DemoInv
<1>20. CASE PollAsks
  <2>0. /\ trigger' \in BOOLEAN /\ (trigger' => trigger)
        /\ UNCHANGED <<practice, sequence, slipped>>
    <3>1. UNCHANGED trigger \/ trigger' = FALSE BY <1>20 DEF PollAsks
    <3>2. trigger \in BOOLEAN BY <1>a DEF AirOK
    <3>3. trigger' \in BOOLEAN BY <3>1, <3>2, Zenon
    <3> QED BY <1>20, <3>1, <3>3 DEF PollAsks
  <2>1. AirOK' BY <1>a, <2>0 DEF AirOK
  <2>2. /\ (trigger' => trigger) /\ UNCHANGED <<demoRecv, sequence, slipped, told, loose,
                                                repeated>>
        /\ UNCHANGED <<demoBridge, demoSeen>>
    BY <2>0, <1>20 DEF PollAsks
  <2>3. demoPoll' \in [step : {"asleep", "asked"}, got : DemoStatus]
    <3>1. [Projected EXCEPT !.armed = trigger'] \in DemoStatus
      BY <1>a, <2>1 DEF DemoStatus, AirOK
    <3> QED BY <3>1, <1>20 DEF PollAsks
  <2>4. DemoTypes'
    BY <1>a, <1>b, <1>c, <1>d, <1>20, <2>3 DEF PollAsks, DemoTypes, DemoSteps, StopSteps
  <2>5. BridgeShape' /\ ArmsOnce'
    BY <1>a, <2>2, <2>4 DEF BridgeShape, ArmsOnce, StopSteps, DemoTypes, TriggerCommands
  <2>6. ToldIsSo'
    BY <1>a, <2>1, <2>2, <2>4, WhatIsRead DEF ToldIsSo, Quiet, AirOK, BridgeShape, DemoTypes
  <2>7. ClosingStops'
    BY <1>a, <2>1, <2>2, <2>4
    DEF ClosingStops, BridgeShape, StopSteps, Quiet, Calm, AirOK, DemoTypes
  <2> QED BY <2>1, <2>4, <2>5, <2>6, <2>7 DEF DemoInv
<1>21. CASE PollTells \/ PollRaises
  <2>1. DemoTypes' BY <1>a, <1>b, <1>21 DEF PollTells, PollRaises, PollsOn, DemoTypes
  <2> QED
    BY <1>a, <1>21, <2>1
    DEF PollTells, PollRaises, PollsOn, DemoInv, AirOK, BridgeShape, ToldIsSo, ClosingStops,
        ArmsOnce,
             Quiet, Calm
<1>22. CASE UNCHANGED demoVars
  <2>1. DemoTypes' BY <1>a, <1>b, <1>22 DEF demoVars, DemoTypes
  <2> QED
    BY <1>a, <1>22, <2>1
    DEF demoVars, DemoInv, AirOK, BridgeShape, ToldIsSo, ClosingStops, ArmsOnce,
             Quiet, Calm
<1> QED
  BY <1>1, <1>2, <1>3, <1>4, <1>5, <1>6, <1>7, <1>8, <1>9, <1>10, <1>11,
     <1>12, <1>13, <1>14, <1>15, <1>16, <1>17, <1>18, <1>19, <1>20, <1>21, <1>22
  DEF DemoNext, Operates, StopGoesOn, TriggerCommands

(* A stop that says that nothing is armed and nothing flies is right until  *)
(* the next arm; a bridge that has gone left nothing armed, and nothing     *)
(* flying that was not told to end, unless its stop failed or was overtaken; *)
(* and a command that succeeded never arms again.                           *)
THEOREM DemoSafety ==
    DemoSpec => [](DemoTypeOK /\ StopTellsTheTruth /\ GoneIsDisarmed /\ ArmsOnce)
<1>1. DemoInv => DemoTypeOK
  BY DEF DemoInv, AirOK, DemoTypes, BridgeShape, DemoTypeOK, DemoSteps, StopSteps,
         TriggerCommands,
         Recvs, DemoIdle
<1>2. DemoInv => StopTellsTheTruth /\ GoneIsDisarmed /\ ArmsOnce
  BY DEF DemoInv, ToldIsSo, ClosingStops, Quiet, Calm, StopTellsTheTruth, GoneIsDisarmed
<1> QED BY DemoInvInit, DemoInvStep, <1>1, <1>2, PTL DEF DemoSpec
-----------------------------------------------------------------------------
(* A ground robot. *)

RobotSteps == {"idle", "cancelling", "awaiting", "stopping", "acting", "closed"}
RobotWhats == {"none", "go", "halt", "light", "show"} \cup ForSafety

\* Each task waits only for what its step asks of the robot.
TasksDo ==
    /\ doing["command"] # "none"
         => \/ recv.step = "stopping" /\ doing["command"] = "stop"
            \/ recv.step = "acting" /\ recv.what = "halt" /\ doing["command"] = "stop"
            \/ recv.step = "acting" /\ recv.what = "go" /\ doing["command"] \in {"aim", "go"}
            \/ recv.step = "acting" /\ recv.what = "light" /\ doing["command"] = "light"
    /\ doing["show"] # "none"
         => \/ show = "pulsing" /\ doing["show"] \in {"aim", "go"}
            \/ show \in {"turning", "ending"} /\ doing["show"] = "stop"
    /\ doing["deadman"] # "none" => tick = "stopping" /\ doing["deadman"] = "stop"

\* A demonstration is over before a command acts or the robot is stopped for it.
ShowGivesWay ==
    /\ recv.step \in {"idle", "closed"} <=> recv.what = "none"
    /\ recv.step = "acting" => recv.what \notin ForSafety
    /\ recv.step = "acting" /\ recv.what # "light" => show = "none"
    /\ recv.step = "stopping" /\ ~OnlyStops(recv.what) => show = "none"

\* While the deadman's flag is down, a robot that rolls is about to be stopped.
AboutToStop ==
    \/ recv.step \in {"awaiting", "stopping", "closed"}
    \/ recv.what \in {"failure", "closing"}
    \/ show = "ending"

Watched ==
    rolling /\ robotKind # "robomaster" /\ ~haunted /\ ~unstopped => active \/ AboutToStop

\* A stop that was the last word left nothing that drives.
Halted ==
    lastStop = "halt" => recv.what \notin {"go", "show"} /\ show = "none" /\ (rolling => haunted)

GroundInv == GroundTypeOK /\ TasksDo /\ ShowGivesWay /\ Watched /\ Halted

\* One task at a time waits for the robot.
DoingOK ==
    /\ doing \in [RobotTasks -> Ops]
    /\ \A t, u \in RobotTasks : doing[t] # "none" /\ doing[u] # "none" => t = u

LEMMA TakesOne ==
    ASSUME GroundTypeOK, NEW t \in RobotTasks, NEW o \in Ops \ {"none"}, Takes(t, o)
    PROVE  /\ DoingOK'
           /\ \A u \in RobotTasks : doing'[u] = IF u = t THEN o ELSE "none"
BY DEF GroundTypeOK, Takes, DoingOK

LEMMA ReturnsToNone ==
    ASSUME GroundTypeOK, NEW t \in RobotTasks, NEW o, Returns(t, o)
    PROVE  /\ DoingOK' /\ \A u \in RobotTasks : doing'[u] = "none"
           /\ rolling' \in BOOLEAN /\ unstopped' \in BOOLEAN
           /\ o = "go" => rolling'
           /\ o = "stop" => ~rolling'
           /\ o = "light" => rolling' = rolling
<1>1. /\ doing[t] = o /\ o \in {"go", "stop", "light"} /\ doing' = [doing EXCEPT ![t] = "none"]
      /\ rolling' = Moves(o) /\ unstopped' = (unstopped /\ o = "light")
  BY DEF Returns
<1>2. DoingOK' /\ \A u \in RobotTasks : doing'[u] = "none"
  BY <1>1 DEF GroundTypeOK, DoingOK, Ops
<1>3. rolling \in BOOLEAN /\ unstopped \in BOOLEAN BY DEF GroundTypeOK
<1> QED BY <1>1, <1>2, <1>3 DEF Moves

LEMMA OnlyGoMoves ==
    ASSUME rolling \in BOOLEAN, NEW o
    PROVE  Moves(o) \in BOOLEAN /\ (o # "go" => (Moves(o) => rolling))
<1>1. CASE o = "go" BY <1>1 DEF Moves
<1>2. CASE o = "stop" BY <1>2 DEF Moves
<1>3. CASE o \notin {"go", "stop"} BY <1>3 DEF Moves
<1> QED BY <1>1, <1>2, <1>3

LEMMA RaisesToNone ==
    ASSUME GroundTypeOK, NEW t \in RobotTasks, Raises(t)
    PROVE  /\ DoingOK' /\ \A u \in RobotTasks : doing'[u] = "none"
           /\ rolling' \in BOOLEAN /\ unstopped' \in BOOLEAN /\ outOfStep' \in BOOLEAN
           /\ groundFaults' \in 0..MaxFaults
           /\ doing[t] # "none"
           /\ doing[t] # "go" => (rolling' => rolling)
           /\ unstopped => unstopped'
           /\ t = "show" /\ show = "ending" => unstopped'
           /\ UNCHANGED <<robotKind, ghost, haunted>>
<1>1. /\ doing[t] # "none" /\ doing' = [doing EXCEPT ![t] = "none"]
      /\ unstopped' = (unstopped \/ (t = "show" /\ show = "ending"))
      /\ UNCHANGED <<robotKind, ghost, haunted>>
  BY DEF Raises
<1>2. DoingOK' /\ \A u \in RobotTasks : doing'[u] = "none"
  BY <1>1 DEF GroundTypeOK, DoingOK, Ops
<1>3. rolling \in BOOLEAN /\ unstopped \in BOOLEAN /\ groundFaults \in Nat
      /\ groundFaults' \in Nat /\ outOfStep \in BOOLEAN /\ MaxFaults \in Nat
  BY GroundAssumption DEF GroundTypeOK, Raises
<1>4. groundFaults' \in 0..MaxFaults BY <1>3 DEF Raises
<1>5. outOfStep' \in BOOLEAN BY <1>3 DEF Raises
<1>6. rolling' = rolling \/ rolling' = Moves(doing[t]) BY DEF Raises
<1>7. rolling' \in BOOLEAN /\ (doing[t] # "go" => (rolling' => rolling))
  <2>1. CASE rolling' = rolling BY <1>3, <2>1
  <2>2. CASE rolling' = Moves(doing[t]) BY <1>3, <2>2, OnlyGoMoves
  <2> QED BY <1>6, <2>1, <2>2
<1> QED BY <1>1, <1>2, <1>3, <1>4, <1>5, <1>7

LEMMA AbandonsThese ==
    ASSUME GroundTypeOK, NEW ts \in SUBSET RobotTasks, Abandons(ts)
    PROVE  /\ DoingOK' /\ \A t \in RobotTasks : doing'[t] = IF t \in ts THEN "none" ELSE doing[t]
           /\ ghost' \in [RobotTasks -> Ops]
           /\ rolling' \in BOOLEAN /\ outOfStep' \in BOOLEAN
           /\ (\A t \in ts : doing[t] # "go") => (rolling' => rolling)
<1>1. DoingOK' /\ \A t \in RobotTasks : doing'[t] = IF t \in ts THEN "none" ELSE doing[t]
  BY DEF Abandons, GroundTypeOK, DoingOK, Ops
<1>2. ghost' \in [RobotTasks -> Ops] BY DEF Abandons, GroundTypeOK, Ops
<1>3. rolling \in BOOLEAN /\ outOfStep \in BOOLEAN BY DEF GroundTypeOK
<1>4. outOfStep' \in BOOLEAN BY <1>3 DEF Abandons
<1>5. rolling' \in BOOLEAN /\ ((\A t \in ts : doing[t] # "go") => (rolling' => rolling))
  <2>1. CASE robotKind = "sphero" BY <1>3, <2>1 DEF Abandons
  <2>2. CASE robotKind # "sphero"
    <3>1. PICK o \in {doing[t] : t \in ts} \cup {"none"} : rolling' = Moves(o)
      BY <2>2 DEF Abandons
    <3> QED BY <1>3, <3>1 DEF Moves
  <2> QED BY <2>1, <2>2
<1> QED BY <1>1, <1>2, <1>4, <1>5

LEMMA GroundInvInit == GroundInit => GroundInv
<1> SUFFICES ASSUME GroundInit PROVE GroundInv
  OBVIOUS
<1>1. recv.step = "idle" /\ recv.what = "none" /\ show = "none" /\ tick = "sleeping"
  BY DEF GroundInit, Ready
<1>2. GroundTypeOK
  <2>1. doing \in [RobotTasks -> Ops] /\ ghost \in [RobotTasks -> Ops] BY DEF GroundInit, Ops
  <2>2. \A t \in RobotTasks : doing[t] = "none" BY DEF GroundInit
  <2>3. recv \in [step : {"idle", "cancelling", "awaiting", "stopping", "acting", "closed"},
                  what : {"none", "go", "halt", "light", "show"} \cup ForSafety]
    BY DEF GroundInit, Ready
  <2>4. groundFaults \in 0..MaxFaults BY GroundAssumption DEF GroundInit
  <2> QED BY <2>1, <2>2, <2>3, <2>4 DEF GroundInit, GroundTypeOK
<1>3. TasksDo /\ Halted /\ Watched BY DEF GroundInit, TasksDo, Halted, Watched, RobotTasks
<1> QED BY <1>1, <1>2, <1>3 DEF GroundInv, ShowGivesWay

\* A call of the driver that returns to a task of the robot keeps the types.
LEMMA ReturnedTypes ==
  ASSUME GroundTypeOK, DoingOK',
         UNCHANGED <<robotKind, groundFaults, haunted, ghost, outOfStep, recv, lastStop>>,
         show' \in {"none", "pulsing", "turning", "resting", "ending"},
         tick' \in {"sleeping", "stopping", "reading", "ended"},
         rolling' \in BOOLEAN, unstopped' \in BOOLEAN, active' \in BOOLEAN, lapsed' \in BOOLEAN
  PROVE  GroundTypeOK'
<1>1. /\ doing' \in [RobotTasks -> Ops]
      /\ \A t, u \in RobotTasks : doing'[t] # "none" /\ doing'[u] # "none" => t = u
  BY DEF DoingOK
<1> QED BY <1>1 DEF GroundTypeOK

LEMMA GroundInvStep == GroundInv /\ [GroundNext]_groundVars => GroundInv'
<1> SUFFICES ASSUME GroundInv, [GroundNext]_groundVars PROVE GroundInv'
  OBVIOUS
<1> USE GroundAssumption DEF deviceVars, watchVars
<1>a. /\ GroundTypeOK /\ TasksDo /\ ShowGivesWay /\ Watched /\ Halted
      /\ recv \in [step : RobotSteps, what : RobotWhats]
      /\ "command" \in RobotTasks /\ "show" \in RobotTasks /\ "deadman" \in RobotTasks
  BY DEF GroundInv, GroundTypeOK, RobotSteps, RobotWhats, RobotTasks
<1>1. ASSUME NEW t \in RobotTasks, Aims(t) PROVE GroundInv'
  <2>1. /\ doing[t] = "aim" /\ DoingOK'
        /\ \A u \in RobotTasks : doing'[u] = IF u = t THEN "go" ELSE "none"
        /\ UNCHANGED <<deviceVars, recv, show, tick, ghost, outOfStep, rolling, watchVars,
                       lastStop>>
    BY <1>a, <1>1 DEF Aims, DoingOK, GroundTypeOK, Ops
  <2>7. GroundTypeOK' BY <1>a, <2>1 DEF GroundTypeOK, DoingOK, RobotSteps, RobotWhats
  <2>8. TasksDo' /\ ShowGivesWay'
    BY <1>a, <2>1 DEF TasksDo, ShowGivesWay, OnlyStops, ForSafety, GroundTypeOK
  <2>9. Watched' /\ Halted'
    BY <1>a, <2>1
    DEF Watched, Halted, AboutToStop, TasksDo, ShowGivesWay, OnlyStops, ForSafety,
        GroundTypeOK
  <2> QED BY <2>7, <2>8, <2>9 DEF GroundInv
<1>2. ASSUME NEW t \in RobotTasks, GhostWrites(t) PROVE GroundInv'
  <2>0. rolling \in BOOLEAN /\ haunted \in BOOLEAN /\ rolling' = Moves(ghost[t])
        /\ haunted' = (haunted \/ ghost[t] = "go")
    BY <1>a, <1>2 DEF GhostWrites, GroundTypeOK
  <2>1. /\ rolling' \in BOOLEAN /\ haunted' \in BOOLEAN /\ (haunted => haunted')
        /\ ~haunted' => (rolling' => rolling)
        /\ ghost' \in [RobotTasks -> Ops]
        /\ UNCHANGED <<robotKind, groundFaults, unstopped, recv, show, tick, doing, outOfStep,
                       watchVars, lastStop>>
    BY <1>a, <2>0, OnlyGoMoves, <1>2 DEF GhostWrites, GroundTypeOK, Ops
  <2>7. GroundTypeOK' BY <1>a, <2>1 DEF GroundTypeOK, DoingOK, RobotSteps, RobotWhats
  <2>8. TasksDo' /\ ShowGivesWay'
    BY <1>a, <2>1 DEF TasksDo, ShowGivesWay, OnlyStops, ForSafety, GroundTypeOK
  <2>9. Watched' /\ Halted'
    BY <1>a, <2>1
    DEF Watched, Halted, AboutToStop, TasksDo, ShowGivesWay, OnlyStops, ForSafety,
        GroundTypeOK
  <2> QED BY <2>7, <2>8, <2>9 DEF GroundInv
<1>3. ASSUME NEW what \in {"go", "halt", "light", "show", "frame"}, ReceiveOperation(what)
      PROVE GroundInv'
  <2> DEFINE st == IF what = "light" THEN "acting"
                   ELSE IF OnlyStops(what) THEN "stopping" ELSE "cancelling"
  <2>0. st \in RobotSteps /\ what \in RobotWhats BY DEF RobotSteps, RobotWhats, ForSafety
  <2>1. /\ recv = Ready /\ recv' = [step |-> st, what |-> what]
        /\ lastStop' = IF what \in {"go", "show"} THEN "none" ELSE lastStop
        /\ UNCHANGED <<deviceVars, show, tick, doing, ghost, outOfStep, rolling, watchVars>>
    BY <1>3 DEF ReceiveOperation, OnlyStops
  <2> HIDE DEF st
  <2>2. /\ recv.step = "idle" /\ recv.what = "none" /\ recv'.what = what /\ recv'.step = st
        /\ recv' \in [step : RobotSteps, what : RobotWhats]
    BY <2>0, <2>1 DEF Ready
  <2>3. st = IF what = "light" THEN "acting"
             ELSE IF OnlyStops(what) THEN "stopping" ELSE "cancelling"
    BY DEF st
  <2>7. GroundTypeOK'
    BY <1>a, <2>1, <2>2, <2>3 DEF GroundTypeOK, DoingOK, RobotSteps, RobotWhats
  <2>8. TasksDo' /\ ShowGivesWay'
    BY <1>a, <2>1, <2>2, <2>3 DEF TasksDo, ShowGivesWay, OnlyStops, ForSafety, GroundTypeOK
  <2>9. Watched' /\ Halted'
    BY <1>a, <2>1, <2>2, <2>3
    DEF Watched, Halted, AboutToStop, TasksDo, ShowGivesWay, OnlyStops, ForSafety,
        GroundTypeOK
  <2> QED BY <2>7, <2>8, <2>9 DEF GroundInv
<1>4. CASE NothingToCancel
  <2>1. /\ recv.step = "cancelling" /\ show = "none" /\ recv'.what = recv.what
        /\ recv'.step = IF recv.what \in ForSafety THEN "stopping" ELSE "acting"
        /\ recv' \in [step : RobotSteps, what : RobotWhats]
        /\ UNCHANGED <<deviceVars, show, tick, doing, ghost, outOfStep, rolling, watchVars,
                       lastStop>>
    BY <1>a, <1>4 DEF NothingToCancel, ShowIsOver, Ready, RobotSteps, RobotWhats, ForSafety
  <2>7. GroundTypeOK' BY <1>a, <2>1 DEF GroundTypeOK, DoingOK, RobotSteps, RobotWhats
  <2>8. TasksDo' /\ ShowGivesWay'
    BY <1>a, <2>1 DEF TasksDo, ShowGivesWay, OnlyStops, ForSafety, GroundTypeOK
  <2>9. Watched' /\ Halted'
    BY <1>a, <2>1
    DEF Watched, Halted, AboutToStop, TasksDo, ShowGivesWay, OnlyStops, ForSafety,
        GroundTypeOK
  <2> QED BY <2>7, <2>8, <2>9 DEF GroundInv
<1>5. CASE CancelShow
  <2>1. /\ recv.step = "cancelling" /\ recv'.step = "awaiting" /\ recv'.what = recv.what
        /\ show # "none" /\ show' = IF show = "ending" THEN "none" ELSE "ending"
        /\ recv' \in [step : RobotSteps, what : RobotWhats]
        /\ UNCHANGED <<deviceVars, tick, watchVars, lastStop>>
    BY <1>a, <1>5 DEF CancelShow, Ready, RobotSteps, RobotWhats, ForSafety
  <2>2. Abandons({"show"}) /\ {"show"} \in SUBSET RobotTasks BY <1>a, <1>5 DEF CancelShow
  <2>3. /\ DoingOK'
        /\ \A t \in RobotTasks : doing'[t] = IF t \in {"show"} THEN "none" ELSE doing[t]
        /\ ghost' \in [RobotTasks -> Ops] /\ rolling' \in BOOLEAN /\ outOfStep' \in BOOLEAN
        /\ (\A t \in {"show"} : doing[t] # "go") => (rolling' => rolling)
    BY <1>a, <2>2, AbandonsThese
  <2>7. GroundTypeOK' BY <1>a, <2>1, <2>3 DEF GroundTypeOK, DoingOK, RobotSteps, RobotWhats
  <2>8. TasksDo' /\ ShowGivesWay'
    BY <1>a, <2>1, <2>3 DEF TasksDo, ShowGivesWay, OnlyStops, ForSafety, GroundTypeOK
  <2>9. Watched' /\ Halted'
    BY <1>a, <2>1, <2>3
    DEF Watched, Halted, AboutToStop, TasksDo, ShowGivesWay, OnlyStops, ForSafety,
        GroundTypeOK
  <2> QED BY <2>7, <2>8, <2>9 DEF GroundInv
<1>6. CASE ShowIsCancelled
  <2>1. /\ recv.step = "awaiting" /\ show = "none" /\ recv'.step = "stopping"
        /\ recv'.what = recv.what
        /\ recv' \in [step : RobotSteps, what : RobotWhats]
        /\ UNCHANGED <<deviceVars, show, tick, doing, ghost, outOfStep, rolling, watchVars,
                       lastStop>>
    BY <1>a, <1>6 DEF ShowIsCancelled, ShowIsOver, Ready, RobotSteps, RobotWhats, ForSafety
  <2>7. GroundTypeOK' BY <1>a, <2>1 DEF GroundTypeOK, DoingOK, RobotSteps, RobotWhats
  <2>8. TasksDo' /\ ShowGivesWay'
    BY <1>a, <2>1 DEF TasksDo, ShowGivesWay, OnlyStops, ForSafety, GroundTypeOK
  <2>9. Watched' /\ Halted'
    BY <1>a, <2>1
    DEF Watched, Halted, AboutToStop, TasksDo, ShowGivesWay, OnlyStops, ForSafety,
        GroundTypeOK
  <2> QED BY <2>7, <2>8, <2>9 DEF GroundInv
<1>7. CASE CommandWrites
  <2>0. PICK o \in Ops \ {"none"} :
            /\ Takes("command", o)
            /\ \/ recv.step = "stopping" /\ o = "stop"
               \/ recv.step = "acting" /\ recv.what = "halt" /\ o = "stop"
               \/ recv.step = "acting" /\ recv.what = "go" /\ o \in {"aim", "go"}
               \/ recv.step = "acting" /\ recv.what = "light" /\ o = "light"
    BY <1>7 DEF CommandWrites, Ops, Roll
  <2>1. UNCHANGED <<deviceVars, recv, show, tick, ghost, outOfStep, rolling, watchVars, lastStop>>
    BY <1>7 DEF CommandWrites
  <2>3. DoingOK' /\ \A u \in RobotTasks : doing'[u] = IF u = "command" THEN o ELSE "none"
    BY <1>a, <2>0, TakesOne
  <2>7. GroundTypeOK'
    BY <1>a, <2>0, <2>1, <2>3 DEF GroundTypeOK, DoingOK, RobotSteps, RobotWhats
  <2>8. TasksDo' /\ ShowGivesWay'
    BY <1>a, <2>0, <2>1, <2>3 DEF TasksDo, ShowGivesWay, OnlyStops, ForSafety, GroundTypeOK
  <2>9. Watched' /\ Halted'
    BY <1>a, <2>0, <2>1, <2>3
    DEF Watched, Halted, AboutToStop, TasksDo, ShowGivesWay, OnlyStops, ForSafety,
        GroundTypeOK
  <2> QED BY <2>7, <2>8, <2>9 DEF GroundInv
<1>8. CASE StartShow
  <2>1. /\ recv.step = "acting" /\ recv.what = "show" /\ show' = "pulsing"
        /\ recv'.step = "idle" /\ recv'.what = "none"
        /\ recv' \in [step : RobotSteps, what : RobotWhats]
        /\ UNCHANGED <<deviceVars, tick, doing, ghost, outOfStep, rolling, watchVars, lastStop>>
    BY <1>a, <1>8 DEF StartShow, Ready, RobotSteps, RobotWhats, ForSafety
  <2>7. GroundTypeOK' BY <1>a, <2>1 DEF GroundTypeOK, DoingOK, RobotSteps, RobotWhats
  <2>8. TasksDo' /\ ShowGivesWay'
    BY <1>a, <2>1 DEF TasksDo, ShowGivesWay, OnlyStops, ForSafety, GroundTypeOK
  <2>9. Watched' /\ Halted'
    BY <1>a, <2>1
    DEF Watched, Halted, AboutToStop, TasksDo, ShowGivesWay, OnlyStops, ForSafety,
        GroundTypeOK
  <2> QED BY <2>7, <2>8, <2>9 DEF GroundInv
<1>9. CASE CommandReturns
  <2>0. PICK o \in {"go", "stop", "light"} :
            /\ Returns("command", o)
            /\ IF o = "light" THEN UNCHANGED watchVars ELSE Watch(o = "go")
    BY <1>9 DEF CommandReturns
  <2>1. /\ doing["command"] = o /\ UNCHANGED <<robotKind, groundFaults, haunted, ghost,
                                               outOfStep>>
        /\ active' \in BOOLEAN /\ lapsed' \in BOOLEAN
        /\ o = "go" => active' \/ robotKind = "robomaster"
        /\ o = "light" => UNCHANGED <<active, unstopped>>
        /\ UNCHANGED <<show, tick>>
    BY <1>a, <2>0, <1>9 DEF CommandReturns, Returns, Watch, GroundTypeOK
  <2>2. /\ recv.step \in {"acting", "stopping"}
        /\ recv' = CASE recv.step = "acting" -> Ready
                      [] recv.what \in ForSafety -> AfterStop(recv.what)
                      [] OTHER -> [recv EXCEPT !.step = "acting"]
        /\ lastStop' = IF recv' = Ready /\ recv.what \in {"halt", "frame"} THEN recv.what
                                                                            ELSE lastStop
    BY <1>a, <2>0, <2>1, <1>9 DEF CommandReturns, TasksDo
  <2>3. /\ DoingOK' /\ \A u \in RobotTasks : doing'[u] = "none"
        /\ rolling' \in BOOLEAN /\ unstopped' \in BOOLEAN
        /\ o = "go" => rolling'
        /\ o = "stop" => ~rolling'
        /\ o = "light" => rolling' = rolling
    BY <1>a, <2>0, ReturnsToNone
  <2>4. /\ recv' \in [step : RobotSteps, what : RobotWhats]
        /\ \/ recv'.step = "idle" /\ recv'.what = "none" /\ recv.what # "closing"
           \/ recv'.step = "closed" /\ recv'.what = "none" /\ recv.step = "stopping"
           \/ /\ recv'.step = "acting" /\ recv'.what = recv.what
              /\ recv.step = "stopping" /\ recv.what \notin ForSafety
        /\ lastStop' \in {"none", "halt", "frame"}
        /\ lastStop' = "halt" => (recv.what = "halt" /\ recv.step = "acting") \/ lastStop = "halt"
    BY <1>a, <2>2
    DEF Ready, AfterStop, RobotSteps, RobotWhats, ForSafety, ShowGivesWay, GroundTypeOK
  <2>7. GroundTypeOK'
    BY <1>a, <2>0, <2>1, <2>3, <2>4 DEF GroundTypeOK, DoingOK, RobotSteps, RobotWhats
  <2>8. TasksDo' /\ ShowGivesWay'
    BY <1>a, <2>0, <2>1, <2>3, <2>4
    DEF TasksDo, ShowGivesWay, OnlyStops, ForSafety, GroundTypeOK
  <2>9. Watched' /\ Halted'
    BY <1>a, <2>0, <2>1, <2>3, <2>4
    DEF Watched, Halted, AboutToStop, TasksDo, ShowGivesWay, OnlyStops, ForSafety,
        GroundTypeOK
  <2> QED BY <2>7, <2>8, <2>9 DEF GroundInv
<1>10. CASE CommandRaises
  <2>1. /\ recv'.step \in {"cancelling", "stopping", "closed"}
        /\ recv'.step = "stopping" => robotKind = "robomaster"
        /\ \/ recv'.step = "closed" /\ recv'.what = "none"
           \/ recv'.step # "closed" /\ recv'.what \in {"failure", "closing"}
        /\ recv' \in [step : RobotSteps, what : RobotWhats]
        /\ recv'.step = "stopping" => recv'.what = "failure"
        /\ UNCHANGED <<show, tick, watchVars, lastStop>>
    BY <1>a, <1>10
    DEF CommandRaises, StopRaises, AfterFailure, AfterStop, OnlyStops, Ready, RobotSteps,
        RobotWhats, ForSafety
  <2>2. Raises("command") BY <1>10 DEF CommandRaises, StopRaises
  <2>3. /\ DoingOK' /\ \A u \in RobotTasks : doing'[u] = "none"
        /\ rolling' \in BOOLEAN /\ unstopped' \in BOOLEAN /\ outOfStep' \in BOOLEAN
        /\ groundFaults' \in 0..MaxFaults
        /\ doing["command"] # "none" /\ (doing["command"] # "go" => (rolling' => rolling))
        /\ unstopped => unstopped'
        /\ "command" = "show" /\ show = "ending" => unstopped'
        /\ UNCHANGED <<robotKind, ghost, haunted>>
    BY <1>a, <2>2, RaisesToNone
  <2>7. GroundTypeOK' BY <1>a, <2>1, <2>3 DEF GroundTypeOK, DoingOK, RobotSteps, RobotWhats
  <2>8. TasksDo' /\ ShowGivesWay'
    BY <1>a, <2>1, <2>3 DEF TasksDo, ShowGivesWay, OnlyStops, ForSafety, GroundTypeOK
  <2>9. Watched' /\ Halted'
    BY <1>a, <2>1, <2>3
    DEF Watched, Halted, AboutToStop, TasksDo, ShowGivesWay, OnlyStops, ForSafety,
        GroundTypeOK
  <2> QED BY <2>7, <2>8, <2>9 DEF GroundInv
<1>11. CASE GroundBridgeCloses
  <2> DEFINE ts == IF recv.step = "awaiting" THEN RobotTasks ELSE {"command", "deadman"}
  <2>1. /\ recv.step # "closed" /\ recv.what # "closing"
        /\ recv'.step = IF recv.step = "awaiting" THEN "stopping" ELSE "cancelling"
        /\ recv'.what = "closing" /\ recv' \in [step : RobotSteps, what : RobotWhats]
        /\ show' = IF recv.step = "awaiting" THEN "none" ELSE show
        /\ tick' = "ended" /\ UNCHANGED <<deviceVars, watchVars, lastStop>>
    BY <1>a, <1>11 DEF GroundBridgeCloses, RobotSteps, RobotWhats, ForSafety
  <2>2. Abandons(ts) /\ ts \in SUBSET RobotTasks BY <1>a, <1>11 DEF GroundBridgeCloses
  <2>3. /\ DoingOK' /\ \A t \in RobotTasks : doing'[t] = IF t \in ts THEN "none" ELSE doing[t]
        /\ ghost' \in [RobotTasks -> Ops] /\ rolling' \in BOOLEAN /\ outOfStep' \in BOOLEAN
        /\ (\A t \in ts : doing[t] # "go") => (rolling' => rolling)
    BY <1>a, <2>2, AbandonsThese
  <2>4. "command" \in ts /\ "deadman" \in ts /\ ("show" \notin ts => recv.step # "awaiting")
        /\ ts \subseteq {"command", "show", "deadman"}
    BY DEF RobotTasks
  <2> HIDE DEF ts
  <2>7. GroundTypeOK'
    BY <1>a, <2>1, <2>3, <2>4 DEF GroundTypeOK, DoingOK, RobotSteps, RobotWhats
  <2>8. TasksDo' /\ ShowGivesWay'
    BY <1>a, <2>1, <2>3, <2>4 DEF TasksDo, ShowGivesWay, OnlyStops, ForSafety, GroundTypeOK
  <2>9. Watched' /\ Halted'
    BY <1>a, <2>1, <2>3, <2>4
    DEF Watched, Halted, AboutToStop, TasksDo, ShowGivesWay, OnlyStops, ForSafety,
        GroundTypeOK
  <2> QED BY <2>7, <2>8, <2>9 DEF GroundInv
<1>12. CASE ShowPulses
  <2>0. PICK o \in Ops \ {"none"} :
            /\ Takes("show", o)
            /\ \/ show = "pulsing" /\ o \in {"aim", "go"}
               \/ show \in {"turning", "ending"} /\ o = "stop"
    BY <1>12 DEF ShowPulses, Ops, Roll
  <2>1. UNCHANGED <<deviceVars, recv, show, tick, ghost, outOfStep, rolling, watchVars, lastStop>>
    BY <1>12 DEF ShowPulses
  <2>3. DoingOK' /\ \A u \in RobotTasks : doing'[u] = IF u = "show" THEN o ELSE "none"
    BY <1>a, <2>0, TakesOne
  <2>7. GroundTypeOK'
    BY <1>a, <2>0, <2>1, <2>3 DEF GroundTypeOK, DoingOK, RobotSteps, RobotWhats
  <2>8. TasksDo' /\ ShowGivesWay'
    BY <1>a, <2>0, <2>1, <2>3 DEF TasksDo, ShowGivesWay, OnlyStops, ForSafety, GroundTypeOK
  <2>9. Watched' /\ Halted'
    BY <1>a, <2>0, <2>1, <2>3
    DEF Watched, Halted, AboutToStop, TasksDo, ShowGivesWay, OnlyStops, ForSafety,
        GroundTypeOK
  <2> QED BY <2>7, <2>8, <2>9 DEF GroundInv
<1>13. CASE ShowReturns
  <2>0. PICK o \in {"go", "stop"} : Returns("show", o) /\ Watch(o = "go")
    BY <1>13 DEF ShowReturns
  <2>1. /\ doing["show"] = o /\ UNCHANGED <<robotKind, groundFaults, haunted, ghost, outOfStep>>
        /\ active' \in BOOLEAN /\ lapsed' = FALSE
        /\ o = "go" => active' \/ robotKind = "robomaster"
        /\ show' = IF show = "ending" THEN "none" ELSE "resting"
        /\ UNCHANGED <<recv, tick, lastStop>>
    BY <2>0, <1>13 DEF ShowReturns, Returns, Watch
  <2>3. /\ DoingOK' /\ \A u \in RobotTasks : doing'[u] = "none"
        /\ rolling' \in BOOLEAN /\ unstopped' \in BOOLEAN
        /\ o = "go" => rolling'
        /\ o = "stop" => ~rolling'
    BY <1>a, <2>0, ReturnsToNone
  <2>7. GroundTypeOK'
    <3>1. show' \in {"none", "resting"} /\ tick' \in {"sleeping", "stopping", "reading", "ended"}
      BY <1>a, <2>1 DEF GroundTypeOK
    <3> QED BY <1>a, <2>1, <2>3, <3>1, ReturnedTypes
  <2>8. TasksDo' /\ ShowGivesWay'
    BY <1>a, <2>0, <2>1, <2>3 DEF TasksDo, ShowGivesWay, OnlyStops, ForSafety, GroundTypeOK
  <2>9. Watched' /\ Halted'
    BY <1>a, <2>0, <2>1, <2>3
    DEF Watched, Halted, AboutToStop, TasksDo, ShowGivesWay, OnlyStops, ForSafety,
        GroundTypeOK
  <2> QED BY <2>7, <2>8, <2>9 DEF GroundInv
<1>14. ASSUME NEW next \in {"pulsing", "turning", "ending"}, ShowRests(next) PROVE GroundInv'
  <2>1. /\ show = "resting" /\ show' = next
        /\ UNCHANGED <<deviceVars, recv, tick, doing, ghost, outOfStep, rolling, watchVars,
                       lastStop>>
    BY <1>a, <1>14 DEF ShowRests, Ready, RobotSteps, RobotWhats, ForSafety
  <2>7. GroundTypeOK' BY <1>a, <2>1 DEF GroundTypeOK, DoingOK, RobotSteps, RobotWhats
  <2>8. TasksDo' /\ ShowGivesWay'
    BY <1>a, <2>1 DEF TasksDo, ShowGivesWay, OnlyStops, ForSafety, GroundTypeOK
  <2>9. Watched' /\ Halted'
    BY <1>a, <2>1
    DEF Watched, Halted, AboutToStop, TasksDo, ShowGivesWay, OnlyStops, ForSafety,
        GroundTypeOK
  <2> QED BY <2>7, <2>8, <2>9 DEF GroundInv
<1>15. CASE ShowRaises
  <2>1. /\ show' = IF show = "ending" THEN "none" ELSE "ending"
        /\ UNCHANGED <<recv, tick, watchVars, lastStop>>
    BY <1>a, <1>15 DEF ShowRaises, StopRaises, Ready, RobotSteps, RobotWhats, ForSafety
  <2>2. Raises("show") BY <1>15 DEF ShowRaises, StopRaises
  <2>3. /\ DoingOK' /\ \A u \in RobotTasks : doing'[u] = "none"
        /\ rolling' \in BOOLEAN /\ unstopped' \in BOOLEAN /\ outOfStep' \in BOOLEAN
        /\ groundFaults' \in 0..MaxFaults
        /\ doing["show"] # "none" /\ (doing["show"] # "go" => (rolling' => rolling))
        /\ unstopped => unstopped'
        /\ "show" = "show" /\ show = "ending" => unstopped'
        /\ UNCHANGED <<robotKind, ghost, haunted>>
    BY <1>a, <2>2, RaisesToNone
  <2>7. GroundTypeOK' BY <1>a, <2>1, <2>3 DEF GroundTypeOK, DoingOK, RobotSteps, RobotWhats
  <2>8. TasksDo' /\ ShowGivesWay'
    BY <1>a, <2>1, <2>3 DEF TasksDo, ShowGivesWay, OnlyStops, ForSafety, GroundTypeOK
  <2>9. Watched' /\ Halted'
    BY <1>a, <2>1, <2>3
    DEF Watched, Halted, AboutToStop, TasksDo, ShowGivesWay, OnlyStops, ForSafety,
        GroundTypeOK
  <2> QED BY <2>7, <2>8, <2>9 DEF GroundInv
<1>16. CASE DeadmanExpires
  <2>1. /\ active /\ lapsed' = TRUE
        /\ UNCHANGED <<deviceVars, recv, show, tick, doing, ghost, outOfStep, rolling, active,
                       lastStop>>
    BY <1>a, <1>16 DEF DeadmanExpires, Ready, RobotSteps, RobotWhats, ForSafety
  <2>7. GroundTypeOK' BY <1>a, <2>1 DEF GroundTypeOK, DoingOK, RobotSteps, RobotWhats
  <2>8. TasksDo' /\ ShowGivesWay'
    BY <1>a, <2>1 DEF TasksDo, ShowGivesWay, OnlyStops, ForSafety, GroundTypeOK
  <2>9. Watched' /\ Halted'
    BY <1>a, <2>1
    DEF Watched, Halted, AboutToStop, TasksDo, ShowGivesWay, OnlyStops, ForSafety,
        GroundTypeOK
  <2> QED BY <2>7, <2>8, <2>9 DEF GroundInv
<1>17. CASE TickLooks
  <2>1. /\ tick = "sleeping" /\ tick' \in {"stopping", "reading"}
        /\ UNCHANGED <<deviceVars, recv, show, doing, ghost, outOfStep, rolling, watchVars,
                       lastStop>>
    BY <1>a, <1>17 DEF TickLooks, Ready, RobotSteps, RobotWhats, ForSafety
  <2>7. GroundTypeOK' BY <1>a, <2>1 DEF GroundTypeOK, DoingOK, RobotSteps, RobotWhats
  <2>8. TasksDo' /\ ShowGivesWay'
    BY <1>a, <2>1 DEF TasksDo, ShowGivesWay, OnlyStops, ForSafety, GroundTypeOK
  <2>9. Watched' /\ Halted'
    BY <1>a, <2>1
    DEF Watched, Halted, AboutToStop, TasksDo, ShowGivesWay, OnlyStops, ForSafety,
        GroundTypeOK
  <2> QED BY <2>7, <2>8, <2>9 DEF GroundInv
<1>18. CASE DeadmanWrites
  <2>1. /\ tick = "stopping"
        /\ UNCHANGED <<deviceVars, recv, show, tick, ghost, outOfStep, rolling, watchVars,
                       lastStop>>
    BY <1>a, <1>18 DEF DeadmanWrites, Ready, RobotSteps, RobotWhats, ForSafety
  <2>2. Takes("deadman", "stop") BY <1>18 DEF DeadmanWrites
  <2>3. DoingOK' /\ \A u \in RobotTasks : doing'[u] = IF u = "deadman" THEN "stop" ELSE "none"
    BY <1>a, <2>2, TakesOne DEF Ops
  <2>7. GroundTypeOK' BY <1>a, <2>1, <2>3 DEF GroundTypeOK, DoingOK, RobotSteps, RobotWhats
  <2>8. TasksDo' /\ ShowGivesWay'
    BY <1>a, <2>1, <2>3 DEF TasksDo, ShowGivesWay, OnlyStops, ForSafety, GroundTypeOK
  <2>9. Watched' /\ Halted'
    BY <1>a, <2>1, <2>3
    DEF Watched, Halted, AboutToStop, TasksDo, ShowGivesWay, OnlyStops, ForSafety,
        GroundTypeOK
  <2> QED BY <2>7, <2>8, <2>9 DEF GroundInv
<1>19. CASE DeadmanReturns
  <2>1. /\ tick' = "reading" /\ active' \in BOOLEAN /\ lapsed' = FALSE
        /\ UNCHANGED <<robotKind, groundFaults, haunted, ghost, outOfStep, recv, show, lastStop>>
    BY <1>a, <1>19 DEF DeadmanReturns, Watch, Returns
  <2>2. Returns("deadman", "stop") BY <1>19 DEF DeadmanReturns, Watch
  <2>3. /\ DoingOK' /\ \A u \in RobotTasks : doing'[u] = "none"
        /\ rolling' = FALSE /\ unstopped' \in BOOLEAN
    BY <1>a, <2>2, ReturnsToNone
  <2>7. GroundTypeOK'
    <3>1. show' \in {"none", "pulsing", "turning", "resting", "ending"}
      BY <1>a, <2>1 DEF GroundTypeOK
    <3> QED BY <1>a, <2>1, <2>3, <3>1, ReturnedTypes
  <2>8. TasksDo' /\ ShowGivesWay'
    BY <1>a, <2>1, <2>3 DEF TasksDo, ShowGivesWay, OnlyStops, ForSafety, GroundTypeOK
  <2>9. Watched' /\ Halted'
    BY <1>a, <2>1, <2>3
    DEF Watched, Halted, AboutToStop, TasksDo, ShowGivesWay, OnlyStops, ForSafety,
        GroundTypeOK
  <2> QED BY <2>7, <2>8, <2>9 DEF GroundInv
<1>20. CASE DeadmanRaises
  <2>1. /\ tick' = "reading" /\ doing["deadman"] = "stop"
        /\ UNCHANGED <<recv, show, lastStop, watchVars>>
    BY <1>a, <1>20
    DEF DeadmanRaises, StopRaises, TriesAgain, Ready, RobotSteps, RobotWhats, ForSafety
  <2>2. Raises("deadman") BY <1>20 DEF DeadmanRaises, StopRaises, TriesAgain
  <2>3. /\ DoingOK' /\ \A u \in RobotTasks : doing'[u] = "none"
        /\ rolling' \in BOOLEAN /\ unstopped' \in BOOLEAN /\ outOfStep' \in BOOLEAN
        /\ groundFaults' \in 0..MaxFaults
        /\ doing["deadman"] # "none" /\ (doing["deadman"] # "go" => (rolling' => rolling))
        /\ unstopped => unstopped'
        /\ "deadman" = "show" /\ show = "ending" => unstopped'
        /\ UNCHANGED <<robotKind, ghost, haunted>>
    BY <1>a, <2>2, RaisesToNone
  <2>7. GroundTypeOK' BY <1>a, <2>1, <2>3 DEF GroundTypeOK, DoingOK, RobotSteps, RobotWhats
  <2>8. TasksDo' /\ ShowGivesWay'
    BY <1>a, <2>1, <2>3 DEF TasksDo, ShowGivesWay, OnlyStops, ForSafety, GroundTypeOK
  <2>9. Watched' /\ Halted'
    BY <1>a, <2>1, <2>3
    DEF Watched, Halted, AboutToStop, TasksDo, ShowGivesWay, OnlyStops, ForSafety,
        GroundTypeOK
  <2> QED BY <2>7, <2>8, <2>9 DEF GroundInv
<1>21. CASE TickSleeps
  <2>1. /\ tick = "reading" /\ tick' = "sleeping"
        /\ UNCHANGED <<deviceVars, recv, show, doing, ghost, outOfStep, rolling, watchVars,
                       lastStop>>
    BY <1>a, <1>21 DEF TickSleeps, Ready, RobotSteps, RobotWhats, ForSafety
  <2>7. GroundTypeOK' BY <1>a, <2>1 DEF GroundTypeOK, DoingOK, RobotSteps, RobotWhats
  <2>8. TasksDo' /\ ShowGivesWay'
    BY <1>a, <2>1 DEF TasksDo, ShowGivesWay, OnlyStops, ForSafety, GroundTypeOK
  <2>9. Watched' /\ Halted'
    BY <1>a, <2>1
    DEF Watched, Halted, AboutToStop, TasksDo, ShowGivesWay, OnlyStops, ForSafety,
        GroundTypeOK
  <2> QED BY <2>7, <2>8, <2>9 DEF GroundInv
<1>22. CASE PumpStops
  <2>1. /\ rolling' \in BOOLEAN /\ ~rolling'
        /\ UNCHANGED <<deviceVars, recv, show, tick, doing, ghost, outOfStep, watchVars,
                       lastStop>>
    BY <1>a, <1>22 DEF PumpStops, Ready, RobotSteps, RobotWhats, ForSafety
  <2>7. GroundTypeOK' BY <1>a, <2>1 DEF GroundTypeOK, DoingOK, RobotSteps, RobotWhats
  <2>8. TasksDo' /\ ShowGivesWay'
    BY <1>a, <2>1 DEF TasksDo, ShowGivesWay, OnlyStops, ForSafety, GroundTypeOK
  <2>9. Watched' /\ Halted'
    BY <1>a, <2>1
    DEF Watched, Halted, AboutToStop, TasksDo, ShowGivesWay, OnlyStops, ForSafety,
        GroundTypeOK
  <2> QED BY <2>7, <2>8, <2>9 DEF GroundInv
<1>23. CASE UNCHANGED groundVars
  <2>1. /\ UNCHANGED <<deviceVars, recv, show, tick, doing, ghost, outOfStep, rolling,
                       watchVars, lastStop>>
    BY <1>a, <1>23 DEF groundVars, Ready, RobotSteps, RobotWhats, ForSafety
  <2>7. GroundTypeOK' BY <1>a, <2>1 DEF GroundTypeOK, DoingOK, RobotSteps, RobotWhats
  <2>8. TasksDo' /\ ShowGivesWay'
    BY <1>a, <2>1 DEF TasksDo, ShowGivesWay, OnlyStops, ForSafety, GroundTypeOK
  <2>9. Watched' /\ Halted'
    BY <1>a, <2>1
    DEF Watched, Halted, AboutToStop, TasksDo, ShowGivesWay, OnlyStops, ForSafety,
        GroundTypeOK
  <2> QED BY <2>7, <2>8, <2>9 DEF GroundInv
<1> QED
  BY <1>1, <1>2, <1>3, <1>4, <1>5, <1>6, <1>7, <1>8, <1>9, <1>10, <1>11, <1>12,
     <1>13, <1>14, <1>15, <1>16, <1>17, <1>18, <1>19, <1>20, <1>21, <1>22, <1>23
  DEF GroundNext

(* A ground robot that rolls is watched by the deadman, unless a thread went *)
(* on after its task was cancelled or a demonstration's last stop raised;    *)
(* and a robot whose stop command was answered stays where it is until the   *)
(* next command (ground robot bridges: bounded_demo.py, the stop handlers    *)
(* and the deadman of the sensor task).                                      *)
THEOREM GroundSafety ==
    GroundSpec => [](GroundTypeOK /\ WatchedWhileRolling /\ StopCommandHolds)
<1>1. GroundInv => GroundTypeOK /\ WatchedWhileRolling /\ StopCommandHolds
  BY DEF GroundInv, Watched, AboutToStop, Halted, Ready, WatchedWhileRolling, StopCommandHolds
<1> QED BY GroundInvInit, GroundInvStep, <1>1, PTL DEF GroundSpec

-----------------------------------------------------------------------------
(* The Matter plug. *)

SettingSteps == {"none", "start", "current", "write", "verify"}
SettingFors == {"nobody", "begin", "command", "stop", "end"}
ReadOutcomes == {"none", "asked", "failed"} \cup Powers
Settings == [step : SettingSteps, for : SettingFors, want : Powers, read : ReadOutcomes,
             tries : 0..MaxVerifies]

PlugTypes ==
    /\ relay \in Powers /\ controller \in BOOLEAN /\ lateSwitches \subseteq Powers
    /\ process \in {"starting", "run", "closing", "ended"}
    /\ setting \in Settings
    /\ polling \in {"check", "asleep", "asked", "failed"} \cup Powers
    /\ known \in Powers \cup {"unknown"} /\ inSession \in BOOLEAN /\ activation \in BOOLEAN
    /\ shown \in Powers \cup {"unknown"}
    /\ claimed \in Powers \cup {"unknown"} /\ disturbed \in BOOLEAN

\* Frames are queued, and a process that polls has not missed too often.
PlugBounds ==
    /\ inbox \in Seq(Powers \cup {"stop"})
    /\ plugFrames \in 0..MaxPlugFrames /\ plugFaults \in 0..MaxPlugFaults
    /\ misses \in 0..MaxPlugMisses
    /\ process \in {"starting", "run"} => misses < MaxPlugMisses

\* What set_power is at work for is what the process is doing, and the reads
\* of a verification are counted from the first.
SettingServes ==
    /\ setting.step \in {"none", "start"} <=> setting.for = "nobody"
    /\ setting.step = "none" => setting = NotSetting
    /\ process = "starting" <=> setting.step = "start" \/ setting.for = "begin"
    /\ setting.for \in {"command", "stop"} => process = "run"
    /\ process = "closing" <=> setting.for = "end"
    /\ setting.step \in {"current", "write"} => setting.tries = 0
    /\ setting.step = "write" => setting.read = "none"

\* While a switch is under way nothing is reported, and what was read last is
\* what the relay does, unless it was switched otherwise.
ReadIsSo ==
    /\ setting.step # "none" => claimed = "unknown"
    /\ setting.read \in Powers /\ ~disturbed => relay = setting.read

MatterInv == PlugTypes /\ SettingServes /\ PlugBounds /\ ReadIsSo /\ ReportedStateHolds

LEMMA MatterInvInit == MatterInit => MatterInv
<1> SUFFICES ASSUME MatterInit PROVE MatterInv
  OBVIOUS
<1>1. PlugTypes /\ SettingServes
  <2>1. setting = [step |-> "start", for |-> "nobody", want |-> "off", read |-> "asked",
                   tries |-> 0]
    BY DEF MatterInit, NotSetting
  <2>2. setting \in Settings
    BY <2>1, MatterAssumption DEF Settings, SettingSteps, SettingFors, ReadOutcomes, Powers
  <2> QED BY <2>1, <2>2 DEF MatterInit, PlugTypes, SettingServes, NotSetting, Powers
<1>2. PlugBounds BY MatterAssumption DEF MatterInit, PlugBounds
<1> QED
  BY <1>1, <1>2 DEF MatterInit, MatterInv, ReadIsSo, ReportedStateHolds, NotSetting, Powers

\* A task that ends begins the last switch.
LEMMA EndsKeeps ==
    ASSUME MatterInv, Ends, process = "run" \/ setting.for \in {"begin", "stop"},
           UNCHANGED <<relay, controller, known, inSession, activation, shown>>,
           misses' \in 0..MaxPlugMisses, plugFrames' \in 0..MaxPlugFrames,
           plugFaults' \in 0..MaxPlugFaults
    PROVE  MatterInv'
<1> USE MatterAssumption
<1>a. PlugTypes /\ SettingServes /\ PlugBounds /\ ReadIsSo /\ ReportedStateHolds
  BY DEF MatterInv
<1>1. PlugTypes'
  <2>1. setting' \in Settings
    BY DEF Ends, SetPower, Asked, Settings, SettingSteps, SettingFors, ReadOutcomes, Powers
  <2>2. lateSwitches' \subseteq Powers BY <1>a DEF Ends, Abandoned, PlugTypes, Settings
  <2> QED BY <1>a, <2>1, <2>2 DEF Ends, SetPower, PlugTypes
<1>2. SettingServes'
  BY <1>a
  DEF Ends, SetPower, Asked, Abandoned, PlugTypes, SettingServes, NotSetting, Settings,
      SettingSteps, SettingFors, ReadOutcomes, Powers
<1>3. PlugBounds'
  BY <1>a
  DEF Ends, SetPower, Asked, Abandoned, PlugTypes, SettingServes, PlugBounds, SettingStep
<1>4. ReadIsSo' /\ ReportedStateHolds'
  BY <1>a
  DEF Ends, SetPower, Asked, Abandoned, PlugTypes, Settings, SettingServes, ReadIsSo,
      ReportedStateHolds, NotSetting, Powers
<1> QED BY <1>1, <1>2, <1>3, <1>4 DEF MatterInv

\* A switch that was verified is reported.
LEMMA SucceedsKeeps ==
    ASSUME MatterInv, setting.step \in {"current", "verify"}, setting.read = setting.want,
           SettingSucceeds(setting.want), SettingStep, UNCHANGED plugFaults
    PROVE  MatterInv'
<1> USE MatterAssumption
<1>a. PlugTypes /\ SettingServes /\ PlugBounds /\ ReadIsSo /\ ReportedStateHolds
  BY DEF MatterInv
<1>b. /\ setting' = NotSetting /\ claimed' = setting.want
      /\ process' = CASE setting.for = "begin" -> "run" [] setting.for = "end" -> "ended"
                     [] OTHER -> process
      /\ known' = setting.want /\ inSession' \in BOOLEAN /\ shown' \in Powers \cup {"unknown"}
      /\ UNCHANGED <<lateSwitches, polling, inbox, disturbed, relay, controller, misses,
                     activation, plugFrames, plugFaults>>
  BY <1>a
  DEF SettingSucceeds, SettingStep, Shows, PlugTypes, SettingServes, Settings, SettingFors
<1>1. PlugTypes'
  BY <1>a, <1>b
  DEF PlugTypes, SettingServes, NotSetting, Settings, SettingSteps, SettingFors, ReadOutcomes,
      Powers
<1>2. SettingServes'
  BY <1>a, <1>b
  DEF PlugTypes, SettingServes, NotSetting, Settings, SettingSteps, SettingFors, ReadOutcomes,
      Powers
<1>3. PlugBounds' BY <1>a, <1>b DEF PlugTypes, SettingServes, PlugBounds, SettingStep
<1>4. ReadIsSo' /\ ReportedStateHolds'
  BY <1>a, <1>b
  DEF PlugTypes, Settings, SettingServes, ReadIsSo, ReportedStateHolds, NotSetting, Powers
<1> QED BY <1>1, <1>2, <1>3, <1>4 DEF MatterInv

\* A switch that failed is reported as failed, or ends the process.
LEMMA FailsKeeps ==
    ASSUME MatterInv, setting.step \in {"current", "write", "verify"}, SettingFails, SettingStep,
           UNCHANGED <<known, inSession, shown>>, plugFaults' \in 0..MaxPlugFaults
    PROVE  MatterInv'
<1> USE MatterAssumption
<1>a. PlugTypes /\ SettingServes /\ PlugBounds /\ ReadIsSo /\ ReportedStateHolds
  BY DEF MatterInv
<1>s. /\ setting.want \in Powers /\ setting.tries \in 0..MaxVerifies
      /\ NotSetting \in Settings
      /\ \A st \in SettingSteps, fo \in SettingFors, w \in Powers, r \in ReadOutcomes,
            n \in 0..MaxVerifies :
            [step |-> st, for |-> fo, want |-> w, read |-> r, tries |-> n] \in Settings
  BY <1>a DEF PlugTypes, Settings, NotSetting, SettingSteps, SettingFors, ReadOutcomes, Powers
<1>e. CASE setting.for \in {"begin", "stop"}
  <2>1. Ends BY <1>e DEF SettingFails
  <2> QED BY <1>a, <1>e, <2>1, EndsKeeps DEF SettingStep, PlugBounds
<1>f. CASE setting.for \in {"command", "end"}
  <2>1. /\ setting' = NotSetting /\ lateSwitches' \subseteq Powers
        /\ process' = IF setting.for = "end" THEN "ended" ELSE process
        /\ UNCHANGED <<polling, inbox, claimed, disturbed, relay, controller, misses, activation,
                       plugFrames, known, inSession, shown>>
    BY <1>a, <1>s, <1>f DEF SettingFails, SettingStep, Abandoned, PlugTypes
  <2>2. PlugTypes'
    BY <1>a, <1>f, <2>1
    DEF PlugTypes, SettingServes, NotSetting, Settings, SettingSteps, SettingFors,
        ReadOutcomes, Powers
  <2>3. SettingServes'
    BY <1>a, <1>f, <2>1
    DEF PlugTypes, SettingServes, NotSetting, Settings, SettingSteps, SettingFors,
        ReadOutcomes, Powers
  <2>4. PlugBounds' BY <1>a, <1>f, <2>1 DEF PlugTypes, SettingServes, PlugBounds, SettingStep
  <2>5. ReadIsSo' /\ ReportedStateHolds'
    BY <1>a, <1>f, <2>1
    DEF PlugTypes, Settings, SettingServes, ReadIsSo, ReportedStateHolds, NotSetting, Powers
  <2> QED BY <2>2, <2>3, <2>4, <2>5 DEF MatterInv
<1> QED BY <1>a, <1>e, <1>f DEF PlugTypes, SettingServes, Settings, SettingFors

LEMMA MatterInvStep == MatterInv /\ [MatterNext]_matterVars => MatterInv'
<1> SUFFICES ASSUME MatterInv, [MatterNext]_matterVars PROVE MatterInv'
  OBVIOUS
<1> USE MatterAssumption DEF workVars, memoryVars, budgetVars
<1>a. PlugTypes /\ SettingServes /\ PlugBounds /\ ReadIsSo /\ ReportedStateHolds
  BY DEF MatterInv
<1>s. /\ setting.want \in Powers /\ setting.tries \in 0..MaxVerifies
      /\ NotSetting \in Settings
      /\ \A st \in SettingSteps, fo \in SettingFors, w \in Powers, r \in ReadOutcomes,
            n \in 0..MaxVerifies :
            [step |-> st, for |-> fo, want |-> w, read |-> r, tries |-> n] \in Settings
  BY <1>a DEF PlugTypes, Settings, NotSetting, SettingSteps, SettingFors, ReadOutcomes, Powers
<1>1. CASE ButtonPressed
  <2>1. PlugTypes'
    BY <1>a, <1>1 DEF ButtonPressed, PlugFault, PlugTypes, Powers
  <2>2. SettingServes'
    BY <1>a, <1>1
    DEF ButtonPressed, PlugFault, PlugTypes, SettingServes, NotSetting, Powers
  <2>3. PlugBounds'
    BY <1>a, <1>1 DEF ButtonPressed, PlugFault, PlugTypes, SettingServes, PlugBounds
  <2>4. ReadIsSo' /\ ReportedStateHolds'
    BY <1>a, <1>1
    DEF ButtonPressed, PlugFault, PlugTypes, Settings, SettingServes, ReadIsSo,
        ReportedStateHolds,
        NotSetting, Powers
  <2> QED BY <2>1, <2>2, <2>3, <2>4 DEF MatterInv
<1>2. CASE LateSwitch
  <2>1. PlugTypes'
    BY <1>a, <1>2 DEF LateSwitch, PlugTypes, Powers
  <2>2. SettingServes'
    BY <1>a, <1>2
    DEF LateSwitch, PlugTypes, SettingServes, NotSetting, Powers
  <2>3. PlugBounds'
    BY <1>a, <1>2 DEF LateSwitch, PlugTypes, SettingServes, PlugBounds
  <2>4. ReadIsSo' /\ ReportedStateHolds'
    BY <1>a, <1>2
    DEF LateSwitch, PlugTypes, Settings, SettingServes, ReadIsSo, ReportedStateHolds,
        NotSetting, Powers
  <2> QED BY <2>1, <2>2, <2>3, <2>4 DEF MatterInv
<1>3. CASE ControllerLost
  <2>1. PlugTypes'
    <3>1. /\ controller' \in BOOLEAN
          /\ UNCHANGED <<relay, lateSwitches, process, setting, polling, known, inSession, activation,
                         shown, claimed, disturbed>>
      BY <1>3 DEF ControllerLost
    <3> QED BY <1>a, <3>1 DEF PlugTypes
  <2>2. SettingServes'
    BY <1>a, <1>3
    DEF ControllerLost, PlugFault, PlugTypes, SettingServes, NotSetting, Powers
  <2>3. PlugBounds'
    BY <1>a, <1>3 DEF ControllerLost, PlugFault, PlugTypes, SettingServes, PlugBounds
  <2>4. ReadIsSo' /\ ReportedStateHolds'
    BY <1>a, <1>3
    DEF ControllerLost, PlugFault, PlugTypes, Settings, SettingServes, ReadIsSo,
        ReportedStateHolds,
        NotSetting, Powers
  <2> QED BY <2>1, <2>2, <2>3, <2>4 DEF MatterInv
<1>4. CASE ReadTimesOut
  <2>1. PlugTypes'
    <3>1. setting' \in Settings
      BY <1>a, <1>4
      DEF ReadTimesOut, PlugFault, PlugTypes, SettingServes, NotSetting, Settings, SettingSteps,
          SettingFors,
          ReadOutcomes, Powers
    <3>2. polling' \in {"check", "asleep", "asked", "failed"} \cup Powers
      BY <1>a, <1>4 DEF ReadTimesOut, PlugTypes
    <3> QED BY <1>a, <1>4, <3>1, <3>2 DEF ReadTimesOut, PlugTypes
  <2>2. SettingServes'
    BY <1>a, <1>4
    DEF ReadTimesOut, PlugTypes, Settings, SettingServes, NotSetting, Powers
  <2>3. PlugBounds'
    BY <1>a, <1>4 DEF ReadTimesOut, PlugFault, PlugTypes, SettingServes, PlugBounds
  <2>4. ReadIsSo' /\ ReportedStateHolds'
    BY <1>a, <1>4
    DEF ReadTimesOut, PlugFault, PlugTypes, Settings, SettingServes, ReadIsSo, ReportedStateHolds,
        NotSetting, Powers
  <2> QED BY <2>1, <2>2, <2>3, <2>4 DEF MatterInv
<1>5. CASE ReadForSetting
  <2>1. PlugTypes'
    <3>1. setting' \in Settings
      BY <1>a, <1>5
      DEF ReadForSetting, ControllerAnswer, PlugTypes, SettingServes, NotSetting, Settings,
          SettingSteps, SettingFors,
          ReadOutcomes, Powers
    <3> QED BY <1>a, <1>5, <3>1 DEF ReadForSetting, ControllerAnswer, PlugTypes, Powers
  <2>2. SettingServes'
    BY <1>a, <1>5
    DEF ReadForSetting, ControllerAnswer, PlugTypes, SettingServes, NotSetting, Powers
  <2>3. PlugBounds'
    BY <1>a, <1>5 DEF ReadForSetting, ControllerAnswer, PlugTypes, SettingServes, PlugBounds
  <2>4. ReadIsSo' /\ ReportedStateHolds'
    BY <1>a, <1>5
    DEF ReadForSetting, ControllerAnswer, PlugTypes, Settings, SettingServes, ReadIsSo,
        ReportedStateHolds,
        NotSetting, Powers
  <2> QED BY <2>1, <2>2, <2>3, <2>4 DEF MatterInv
<1>6. CASE ReadForPoll
  <2>1. PlugTypes'
    BY <1>a, <1>6 DEF ReadForPoll, ControllerAnswer, PlugTypes, Powers
  <2>2. SettingServes'
    BY <1>a, <1>6
    DEF ReadForPoll, ControllerAnswer, PlugTypes, SettingServes, NotSetting, Powers
  <2>3. PlugBounds'
    BY <1>a, <1>6 DEF ReadForPoll, ControllerAnswer, PlugTypes, SettingServes, PlugBounds
  <2>4. ReadIsSo' /\ ReportedStateHolds'
    BY <1>a, <1>6
    DEF ReadForPoll, ControllerAnswer, PlugTypes, Settings, SettingServes, ReadIsSo,
        ReportedStateHolds,
        NotSetting, Powers
  <2> QED BY <2>1, <2>2, <2>3, <2>4 DEF MatterInv
<1>7. CASE CurrentRead
  <2>1. CASE setting.read = setting.want /\ SettingSucceeds(setting.want)
    BY <2>1, <1>7, SucceedsKeeps DEF CurrentRead
  <2>2. CASE setting.read \in Powers \ {setting.want}
    <3>1. /\ setting' = [setting EXCEPT !.step = "write", !.read = "none"]
          /\ UNCHANGED <<lateSwitches, process, polling, known, inSession, inbox, shown, claimed,
                         disturbed, relay, controller, misses, activation, plugFrames,
                         plugFaults>>
      BY <1>a, <1>7, <2>2 DEF CurrentRead, SettingStep, Powers, PlugTypes
    <3>2. PlugTypes'
      <4>1. setting' \in Settings
        BY <1>a, <3>1 DEF PlugTypes, Settings, SettingSteps, ReadOutcomes
      <4> QED BY <1>a, <3>1, <4>1 DEF PlugTypes
    <3> QED
      BY <1>a, <1>7, <3>1, <3>2
      DEF CurrentRead, MatterInv, PlugTypes, Settings, SettingServes, PlugBounds, ReadIsSo,
          ReportedStateHolds, NotSetting, Powers
  <2>3. CASE setting.read = "failed" /\ SettingFails /\ UNCHANGED <<known, inSession, shown>>
    BY <1>a, <2>3, <1>7, FailsKeeps DEF CurrentRead, PlugBounds
  <2> QED BY <1>a, <1>7, <2>1, <2>2, <2>3 DEF CurrentRead, Powers
<1>8. CASE WriteAnswered
  <2>1. PlugTypes'
    <3>1. setting.tries + 1 \in 0..MaxVerifies
      BY <1>a, <1>8 DEF WriteAnswered, SettingServes
    <3>2. setting' \in Settings
      BY <1>a, <1>8, <3>1
      DEF WriteAnswered, AskAgain, PlugTypes, Settings, SettingSteps, ReadOutcomes
    <3> QED BY <1>a, <1>s, <1>8, <3>2 DEF WriteAnswered, PlugTypes
  <2>2. SettingServes'
    BY <1>a, <1>8
    DEF WriteAnswered, AskAgain, PlugTypes, SettingServes, NotSetting, Powers
  <2>3. PlugBounds'
    BY <1>a, <1>8 DEF WriteAnswered, AskAgain, PlugTypes, SettingServes, PlugBounds
  <2>4. ReadIsSo' /\ ReportedStateHolds'
    BY <1>a, <1>8
    DEF WriteAnswered, AskAgain, PlugTypes, Settings, SettingServes, ReadIsSo, ReportedStateHolds,
        NotSetting, Powers
  <2> QED BY <2>1, <2>2, <2>3, <2>4 DEF MatterInv
<1>9. CASE WriteUnanswered
  <2>1. plugFaults' \in 0..MaxPlugFaults
    BY <1>a, <1>9 DEF WriteUnanswered, PlugFault, PlugBounds
  <2> QED BY <1>9, <2>1, FailsKeeps DEF WriteUnanswered
<1>10. CASE VerifyRead
  <2>1. CASE Verified(setting.read) /\ SettingSucceeds(setting.want)
    BY <2>1, <1>10, SucceedsKeeps DEF VerifyRead, Verified
  <2>2. CASE setting.read \in Powers /\ setting.tries < MaxVerifies /\ AskAgain
             /\ UNCHANGED <<lateSwitches, process, polling, known, inSession, inbox, shown,
                            claimed,
                            disturbed>>
    <3>1. /\ setting' = [setting EXCEPT !.step = "verify", !.read = "asked", !.tries = @ + 1]
          /\ UNCHANGED <<lateSwitches, process, polling, known, inSession, inbox, shown, claimed,
                         disturbed, relay, controller, misses, activation, plugFrames,
                         plugFaults>>
      BY <1>a, <1>10, <2>2 DEF VerifyRead, SettingStep, AskAgain
    <3>2. setting.tries + 1 \in 0..MaxVerifies BY <1>s, <2>2
    <3>3. PlugTypes'
      <4>1. setting' \in Settings
        BY <1>a, <3>1, <3>2 DEF PlugTypes, Settings, SettingSteps, ReadOutcomes
      <4> QED BY <1>a, <3>1, <4>1 DEF PlugTypes
    <3> QED
      BY <1>a, <1>10, <3>1, <3>3
      DEF VerifyRead, MatterInv, PlugTypes, Settings, SettingServes, PlugBounds, ReadIsSo,
          ReportedStateHolds, NotSetting, Powers
  <2>3. CASE SettingFails /\ UNCHANGED <<known, inSession, shown>>
    BY <1>a, <2>3, <1>10, FailsKeeps DEF VerifyRead, PlugBounds
  <2> QED BY <1>10, <2>1, <2>2, <2>3 DEF VerifyRead
<1>11. CASE Started
  <2>1. PlugTypes'
    <3>1. setting' \in Settings
      BY <1>a, <1>11
      DEF Started, SetPower, Asked, PlugTypes, SettingServes, NotSetting, Settings,
          SettingSteps, SettingFors,
          ReadOutcomes, Powers
    <3>2. /\ process' \in {"starting", "run", "closing", "ended"}
          /\ known' \in Powers \cup {"unknown"} /\ claimed' \in Powers \cup {"unknown"}
          /\ disturbed' \in BOOLEAN
      BY <1>a, <1>11 DEF Started, SetPower, PlugTypes, Powers
    <3> QED BY <1>a, <1>11, <3>1, <3>2 DEF Started, PlugTypes
  <2>2. SettingServes'
    BY <1>a, <1>11
    DEF Started, SetPower, Asked, PlugTypes, SettingServes, NotSetting, Powers
  <2>3. PlugBounds'
    BY <1>a, <1>11 DEF Started, SetPower, Asked, PlugTypes, SettingServes, PlugBounds
  <2>4. ReadIsSo' /\ ReportedStateHolds'
    BY <1>a, <1>11
    DEF Started, SetPower, Asked, PlugTypes, Settings, SettingServes, ReadIsSo,
        ReportedStateHolds,
        NotSetting, Powers
  <2> QED BY <2>1, <2>2, <2>3, <2>4 DEF MatterInv
<1>12. CASE FabricSends
  <2>1. PlugTypes'
    BY <1>a, <1>12 DEF FabricSends, PlugTypes, Powers
  <2>2. SettingServes'
    BY <1>a, <1>12
    DEF FabricSends, PlugTypes, SettingServes, NotSetting, Powers
  <2>3. PlugBounds'
    BY <1>a, <1>12 DEF FabricSends, PlugTypes, SettingServes, PlugBounds
  <2>4. ReadIsSo' /\ ReportedStateHolds'
    BY <1>a, <1>12
    DEF FabricSends, PlugTypes, Settings, SettingServes, ReadIsSo, ReportedStateHolds,
        NotSetting, Powers
  <2> QED BY <2>1, <2>2, <2>3, <2>4 DEF MatterInv
<1>13. CASE Receive
  <2>1. PlugTypes'
    <3>1. Head(inbox) \in Powers \cup {"stop"} BY <1>a, <1>13 DEF Receive, PlugBounds
    <3>2. \E fo \in SettingFors, w \in Powers :
             setting' = [step |-> "current", for |-> fo, want |-> w, read |-> "asked",
                         tries |-> 0]
      BY <1>13, <3>1 DEF Receive, SetPower, Asked, SettingFors, Powers
    <3>3. setting' \in Settings BY <1>s, <3>2 DEF SettingSteps, ReadOutcomes
    <3> QED BY <1>a, <1>13, <3>3 DEF Receive, SetPower, PlugTypes
  <2>2. SettingServes'
    BY <1>a, <1>13
    DEF Receive, SetPower, Asked, PlugTypes, SettingServes, NotSetting, Powers
  <2>3. PlugBounds'
    BY <1>a, <1>13 DEF Receive, SetPower, Asked, PlugTypes, SettingServes, PlugBounds
  <2>4. ReadIsSo' /\ ReportedStateHolds'
    BY <1>a, <1>13
    DEF Receive, SetPower, Asked, PlugTypes, Settings, SettingServes, ReadIsSo,
        ReportedStateHolds,
        NotSetting, Powers
  <2> QED BY <2>1, <2>2, <2>3, <2>4 DEF MatterInv
<1>14. CASE PollGoesOn
  <2>1. CASE Ends
    BY <1>a, <1>14, <2>1, EndsKeeps DEF PollGoesOn, PlugBounds
  <2>2. CASE polling' \in {"asked", "asleep"}
             /\ UNCHANGED <<lateSwitches, process, setting, inbox, claimed, disturbed>>
    BY <1>a, <1>14, <2>2
    DEF PollGoesOn, MatterInv, PlugTypes, Settings, SettingServes, PlugBounds, ReadIsSo,
        ReportedStateHolds
  <2> QED BY <1>14, <2>1, <2>2 DEF PollGoesOn
<1>15. CASE PollRead
  <2>1. PlugTypes'
    BY <1>a, <1>15 DEF PollRead, Kept, Shows, PlugTypes, Powers
  <2>2. SettingServes'
    BY <1>a, <1>15
    DEF PollRead, Kept, Shows, PlugTypes, SettingServes, NotSetting, Powers
  <2>3. PlugBounds'
    BY <1>a, <1>15 DEF PollRead, Kept, Shows, PlugTypes, SettingServes, PlugBounds
  <2>4. ReadIsSo' /\ ReportedStateHolds'
    BY <1>a, <1>15
    DEF PollRead, Kept, Shows, PlugTypes, Settings, SettingServes, ReadIsSo, ReportedStateHolds,
        NotSetting, Powers
  <2> QED BY <2>1, <2>2, <2>3, <2>4 DEF MatterInv
<1>16. CASE PollFailed
  <2>1. misses' \in 0..MaxPlugMisses BY <1>a, <1>16 DEF PollFailed, Missed, PlugBounds
  <2>2. CASE misses' >= MaxPlugMisses
    BY <1>a, <1>16, <2>1, <2>2, EndsKeeps DEF PollFailed, PlugBounds
  <2>3. CASE ~(misses' >= MaxPlugMisses)
    <3>1. misses' < MaxPlugMisses BY <2>1, <2>3
    <3> QED
      BY <1>a, <1>16, <2>1, <2>3, <3>1
      DEF PollFailed, MatterInv, PlugTypes, Settings, SettingServes, PlugBounds, ReadIsSo,
          ReportedStateHolds
  <2> QED BY <2>2, <2>3
<1>17. CASE FabricGone
  <2>1. plugFaults' \in 0..MaxPlugFaults BY <1>a, <1>17 DEF FabricGone, PlugFault, PlugBounds
  <2> QED BY <1>a, <1>17, <2>1, EndsKeeps DEF FabricGone, PlugBounds
<1>18. CASE ActivationRemoved
  <2>1. PlugTypes'
    <3>1. /\ activation' \in BOOLEAN
          /\ UNCHANGED <<relay, lateSwitches, process, setting, polling, known, inSession, controller,
                         shown, claimed, disturbed>>
      BY <1>18 DEF ActivationRemoved
    <3> QED BY <1>a, <3>1 DEF PlugTypes
  <2>2. SettingServes'
    BY <1>a, <1>18
    DEF ActivationRemoved, PlugFault, PlugTypes, SettingServes, NotSetting, Powers
  <2>3. PlugBounds'
    BY <1>a, <1>18 DEF ActivationRemoved, PlugFault, PlugTypes, SettingServes, PlugBounds
  <2>4. ReadIsSo' /\ ReportedStateHolds'
    BY <1>a, <1>18
    DEF ActivationRemoved, PlugFault, PlugTypes, Settings, SettingServes, ReadIsSo,
        ReportedStateHolds,
        NotSetting, Powers
  <2> QED BY <2>1, <2>2, <2>3, <2>4 DEF MatterInv
<1>19. CASE Killed
  <2>1. PlugTypes'
    <3>1. setting' \in Settings
      BY <1>a, <1>19
      DEF Killed, PlugFault, Abandoned, PlugTypes, SettingServes, NotSetting, Settings,
          SettingSteps, SettingFors,
          ReadOutcomes, Powers
    <3> QED BY <1>a, <1>s, <1>19, <3>1 DEF Killed, PlugFault, Abandoned, PlugTypes
  <2>2. SettingServes'
    BY <1>a, <1>19
    DEF Killed, PlugFault, Abandoned, PlugTypes, SettingServes, NotSetting, Powers
  <2>3. PlugBounds'
    BY <1>a, <1>19 DEF Killed, PlugFault, Abandoned, PlugTypes, SettingServes, PlugBounds
  <2>4. ReadIsSo' /\ ReportedStateHolds'
    BY <1>a, <1>19
    DEF Killed, PlugFault, Abandoned, PlugTypes, Settings, SettingServes, ReadIsSo,
        ReportedStateHolds,
        NotSetting, Powers
  <2> QED BY <2>1, <2>2, <2>3, <2>4 DEF MatterInv
<1>20. CASE Relaunched
  <2>1. PlugTypes'
    <3>1. setting' \in Settings
      BY <1>a, <1>20
      DEF Relaunched, PlugFault, PlugTypes, SettingServes, NotSetting, Settings, SettingSteps,
          SettingFors,
          ReadOutcomes, Powers
    <3> QED BY <1>a, <1>20, <3>1 DEF Relaunched, PlugFault, PlugTypes, Powers
  <2>2. SettingServes'
    BY <1>a, <1>20
    DEF Relaunched, PlugFault, PlugTypes, SettingServes, NotSetting, Powers
  <2>3. PlugBounds'
    BY <1>a, <1>20 DEF Relaunched, PlugFault, PlugTypes, SettingServes, PlugBounds
  <2>4. ReadIsSo' /\ ReportedStateHolds'
    BY <1>a, <1>20
    DEF Relaunched, PlugFault, PlugTypes, Settings, SettingServes, ReadIsSo, ReportedStateHolds,
        NotSetting, Powers
  <2> QED BY <2>1, <2>2, <2>3, <2>4 DEF MatterInv
<1>21. CASE UNCHANGED matterVars
  <2>1. PlugTypes'
    BY <1>a, <1>21 DEF matterVars, PlugTypes
  <2>2. SettingServes'
    BY <1>a, <1>21
    DEF matterVars, PlugTypes, SettingServes, NotSetting, Powers
  <2>3. PlugBounds'
    BY <1>a, <1>21 DEF matterVars, PlugTypes, SettingServes, PlugBounds
  <2>4. ReadIsSo' /\ ReportedStateHolds'
    BY <1>a, <1>21
    DEF matterVars, PlugTypes, Settings, SettingServes, ReadIsSo, ReportedStateHolds,
        NotSetting, Powers
  <2> QED BY <2>1, <2>2, <2>3, <2>4 DEF MatterInv
<1> QED
  BY <1>1, <1>2, <1>3, <1>4, <1>5, <1>6, <1>7, <1>8, <1>9, <1>10, <1>11, <1>12, <1>13, <1>14,
     <1>15, <1>16, <1>17, <1>18, <1>19, <1>20, <1>21
  DEF MatterNext

(* What a command, a stop or the end of the process reports of a Matter    *)
(* plug is what its relay does, unless the button was pressed or a switch  *)
(* given up before happened late (set_power, which writes only what differs *)
(* and then reads until it is so).                                          *)
THEOREM MatterSafety == MatterSpec => [](MatterTypeOK /\ ReportedStateHolds)
<1>1. MatterInv => MatterTypeOK /\ ReportedStateHolds
  BY DEF MatterInv, PlugTypes, SettingServes, PlugBounds, MatterTypeOK, Settings,
         SettingSteps, SettingFors, ReadOutcomes
<1> QED BY MatterInvInit, MatterInvStep, <1>1, PTL DEF MatterSpec
-----------------------------------------------------------------------------
(* The fleet of aircraft. *)

FleetSteps == {"idle", "arming", "land", "landed?"}
Launching == {"check", "takeoff", "flying?", "pause"}
LandSteps == {"land", "landed?"}
Calls == [who : {"fleet", "tello"}, a : {"takeoff", "land", "emergency"}, d : Drones]

\* In the air because the sequence launched it, and not by a cancelled task.
Flown == fleetAir \ late

Flyers ==
    /\ flying \subseteq Drones /\ fleetAir \subseteq flying /\ late \subseteq flying
    /\ leftover \subseteq Calls

FleetTypes ==
    /\ bridge \in {"up", "closing", "down"}
    /\ fleet \in [step : FleetSteps, todo : Seq(Drones), ok : BOOLEAN]
    /\ launch \in [step : {"none"} \cup Launching \cup LandSteps, at : Nat, todo : Seq(Drones)]
    /\ selected \in Orders \cup {<<>>} /\ armed \in {"no", "yes", "late"}
    /\ sent \in Seq(Drones) /\ asked \subseteq Drones /\ DOMAIN manual = Manual

\* What was sent is what was selected, as far as the sequence has come; an arm
\* that is not used yet has sent nothing, and one task at a time has the fleet.
SentInOrder ==
    /\ Len(sent) <= Len(selected)
    /\ \A i \in 1..Len(sent) : sent[i] = selected[i]
    /\ armed # "no" => sent = <<>> /\ selected # <<>>

LaunchShape ==
    /\ launch.step = "none" => launch = NoLaunch
    /\ launch.step # "none"
         => launch.at \in 1..Len(selected) /\ armed = "no" /\ fleet.step = "idle"
    /\ launch.step \in Launching => phase = "launching"
    /\ launch.step = "check" => Len(sent) = launch.at - 1
    /\ launch.step \in Launching \ {"check"} => Len(sent) = launch.at
    /\ launch.step = "pause" => launch.at < Len(selected)
    /\ fleet.step = "arming" => fleet.todo \in Orders
    /\ fleet.step \in LandSteps => armed = "no"

\* A landing under way still has to ask what was launched and not asked yet, and
\* while it has not failed, what is up is what it has not come to.
LandingsCover ==
    /\ launch.step \in LandSteps
         => /\ phase = "landing" /\ launch.todo # <<>>
            /\ ToSet(sent) \subseteq asked \cup ToSet(launch.todo)
            /\ launch.step = "landed?" => Head(launch.todo) \in asked
    /\ fleet.step \in LandSteps
         => /\ phase = "landing" /\ fleet.todo # <<>>
            /\ ToSet(sent) \subseteq asked \cup ToSet(fleet.todo)
            /\ fleet.step = "landed?" => Head(fleet.todo) \in asked
            /\ fleet.ok => ToSet(selected) \cap Flown \subseteq ToSet(fleet.todo)

FlightInv ==
    /\ Flyers /\ FleetTypes /\ SentInOrder /\ LaunchShape /\ LandingsCover
    /\ AttemptedAreAskedToLand /\ StoppedFleetIsDown

LEMMA HeadAndRest ==
    ASSUME NEW S, NEW s \in Seq(S), s # <<>>
    PROVE  /\ Head(s) \in S /\ Tail(s) \in Seq(S)
           /\ ToSet(s) = {Head(s)} \cup ToSet(Tail(s))
<1>1. /\ Head(s) \in S /\ Tail(s) \in Seq(S) /\ Len(Tail(s)) = Len(s) - 1
      /\ \A i \in 1..Len(Tail(s)) : Tail(s)[i] = s[i + 1]
  BY HeadTailProperties
<1>2. Len(s) \in Nat \ {0} /\ Head(s) = s[1] BY EmptySeq
<1>3. DOMAIN s = 1..Len(s) /\ DOMAIN Tail(s) = 1..(Len(s) - 1) BY <1>1, LenProperties
<1>4. \A i \in DOMAIN s : s[i] \in {Head(s)} \cup ToSet(Tail(s))
  <2> TAKE i \in DOMAIN s
  <2>1. CASE i = 1 BY <2>1, <1>2
  <2>2. CASE i # 1
    <3>1. i - 1 \in 1..(Len(s) - 1) /\ Tail(s)[i - 1] = s[i] BY <1>1, <1>2, <1>3, <2>2
    <3> QED BY <1>3, <3>1 DEF ToSet
  <2> QED BY <2>1, <2>2
<1>5. \A i \in DOMAIN Tail(s) : Tail(s)[i] = s[i + 1] /\ i + 1 \in DOMAIN s
  BY <1>1, <1>2, <1>3
<1>6. 1 \in DOMAIN s BY <1>2, <1>3
<1> QED BY <1>1, <1>2, <1>4, <1>5, <1>6 DEF ToSet

LEMMA SelectedIsOrder ==
    ASSUME FleetTypes
    PROVE  selected \in Seq(Drones) /\ (selected = <<>> \/ selected \in Orders)
<1>1. selected \in Orders => selected \in Seq(Drones) BY FleetAssumption
<1> QED BY <1>1, EmptySeq DEF FleetTypes

\* The takeoffs sent are the part of the selection that was attempted.
LEMMA SentIsPart ==
    ASSUME FleetTypes, SentInOrder
    PROVE  /\ SubSeq(selected, 1, Len(sent)) = sent
           /\ ToSet(sent) \subseteq ToSet(selected)
           /\ IsPrefix(sent, selected)
<1> DEFINE part == SubSeq(selected, 1, Len(sent))
<1>1. /\ selected \in Seq(Drones) /\ sent \in Seq(Drones)
      /\ Len(sent) \in Nat /\ Len(selected) \in Nat /\ DOMAIN sent = 1..Len(sent)
      /\ DOMAIN selected = 1..Len(selected)
  BY SelectedIsOrder, LenProperties DEF FleetTypes
<1>2. \A i \in 1..Len(sent) : selected[i] \in Drones
  BY <1>1, ElementOfSeq DEF SentInOrder
<1>3. /\ part \in Seq(Drones) /\ Len(part) = Len(sent)
      /\ \A i \in 1..Len(sent) : part[i] = selected[i]
  BY <1>1, <1>2, SubSeqProperties
<1>4. part = sent
  <2> HIDE DEF part
  <2> QED BY <1>1, <1>3, SeqEqual DEF SentInOrder
<1>5. ToSet(sent) \subseteq ToSet(selected) BY <1>1 DEF ToSet, SentInOrder
<1>6. SubSeq(sent, 1, Len(sent)) = sent
  <2> DEFINE whole == SubSeq(sent, 1, Len(sent))
  <2>1. \A i \in 1..Len(sent) : sent[i] \in Drones BY <1>1, ElementOfSeq
  <2>2. /\ whole \in Seq(Drones) /\ Len(whole) = Len(sent)
        /\ \A i \in 1..Len(sent) : whole[i] = sent[i]
    BY <1>1, <2>1, SubSeqProperties
  <2> HIDE DEF whole
  <2> QED BY <1>1, <2>2, SeqEqual
<1> QED BY <1>4, <1>5, <1>6 DEF IsPrefix, SentInOrder

\* What a call does to the aircraft. Only a takeoff of the sequence adds to what
\* it has in the air.
LEMMA HasMoves ==
    ASSUME Flyers, NEW who, NEW a, NEW d \in Drones, Has(who, a, d), leftover' \subseteq Calls
    PROVE  Flyers' /\ (who # "fleet" \/ a # "takeoff" => Flown' \subseteq Flown)
<1>1. CASE a = "takeoff" BY <1>1 DEF Has, Flyers, Flown
<1>2. CASE a # "takeoff" BY <1>2 DEF Has, Flyers, Flown
<1> QED BY <1>1, <1>2

\* A step of a Tello adapter, or of a thread left behind.
LEMMA FleetStays ==
    ASSUME FlightInv, Flyers', Flown' \subseteq Flown, DOMAIN manual' = Manual,
           UNCHANGED <<fleetVars, sent, asked>>
    PROVE  FlightInv'
<1>1. FleetTypes' BY DEF FlightInv, FleetTypes, fleetVars
<1>2. SentInOrder' /\ LaunchShape' BY DEF FlightInv, SentInOrder, LaunchShape, fleetVars
<1>3. LandingsCover' BY DEF FlightInv, LandingsCover, fleetVars
<1>4. AttemptedAreAskedToLand' BY DEF FlightInv, AttemptedAreAskedToLand, fleetVars
<1>5. StoppedFleetIsDown' BY DEF FlightInv, StoppedFleetIsDown, fleetVars, Flown
<1> QED BY <1>1, <1>2, <1>3, <1>4, <1>5 DEF FlightInv

\* stop(): everything that was selected is to be landed.
LEMMA StopKeeps ==
    ASSUME FlightInv, StopBegins, Flyers', bridge' \in {"up", "closing", "down"},
           UNCHANGED <<selected, sent, asked, manual>>
    PROVE  FlightInv'
<1>a. FleetTypes /\ SentInOrder BY DEF FlightInv
<1>1. /\ launch' = NoLaunch /\ armed' = "no"
      /\ fleet' = [step |-> IF selected = <<>> THEN "idle" ELSE "land", todo |-> selected,
                   ok |-> TRUE]
      /\ phase' = IF selected = <<>> THEN "stopped" ELSE "landing"
  BY DEF StopBegins, Waiting
<1>2. FleetTypes'
  BY <1>a, <1>1, SelectedIsOrder DEF FleetTypes, FleetSteps, LandSteps, NoLaunch
<1>3. SentInOrder' BY <1>a, <1>1 DEF SentInOrder
<1>4. LaunchShape' BY <1>1 DEF LaunchShape, NoLaunch, Launching, LandSteps
<1>5. LandingsCover' BY <1>a, <1>1, SentIsPart DEF LandingsCover, NoLaunch, LandSteps
<1>6. selected = <<>> => ToSet(sent) = {} /\ ToSet(selected) = {}
  BY <1>a, SentIsPart DEF ToSet
<1>7. AttemptedAreAskedToLand' /\ StoppedFleetIsDown'
  BY <1>1, <1>6 DEF AttemptedAreAskedToLand, StoppedFleetIsDown
<1> QED BY <1>2, <1>3, <1>4, <1>5, <1>7 DEF FlightInv

\* The landing of a stop goes on to the next aircraft, or reports.
LEMMA StopAdvances ==
    ASSUME FlightInv, NEW ok \in BOOLEAN, fleet.step \in LandSteps, Advances("stop", ok),
           Flyers', Flown' \subseteq Flown, ok => Head(fleet.todo) \notin Flown',
           asked' = asked \cup {Head(fleet.todo)},
           UNCHANGED <<selected, armed, sent, manual>>
    PROVE  FlightInv'
<1> DEFINE rest == Tail(fleet.todo)
<1>a. FleetTypes /\ SentInOrder /\ LaunchShape /\ LandingsCover BY DEF FlightInv
<1>b. /\ fleet.todo \in Seq(Drones) /\ fleet.todo # <<>> /\ launch.step = "none"
      /\ fleet.ok \in BOOLEAN
      /\ launch = NoLaunch
  BY <1>a DEF FleetTypes, LaunchShape, LandingsCover, LandSteps
<1>c. /\ Head(fleet.todo) \in Drones /\ rest \in Seq(Drones)
      /\ ToSet(fleet.todo) = {Head(fleet.todo)} \cup ToSet(rest)
  BY <1>b, HeadAndRest
<1>1. /\ fleet' = [step |-> IF rest = <<>> THEN "idle" ELSE "land", todo |-> rest,
                   ok |-> rest = <<>> \/ (ok /\ fleet.ok)]
      /\ phase' = IF rest = <<>> THEN Outcome(ok) ELSE "landing"
      /\ bridge' \in {"up", "closing", "down"} /\ launch' = launch
  BY <1>a DEF Advances, Lander, FleetTypes
<1> HIDE DEF rest
<1>2. FleetTypes'
  BY <1>a, <1>b, <1>c, <1>1 DEF FleetTypes, FleetSteps
<1>3. SentInOrder' BY <1>a DEF SentInOrder
<1>4. LaunchShape' BY <1>a, <1>b, <1>1 DEF LaunchShape, Launching, LandSteps
<1>5. ToSet(sent) \subseteq asked' \cup ToSet(rest) BY <1>a, <1>c DEF LandingsCover
<1>6. ok /\ fleet.ok => ToSet(selected) \cap Flown' \subseteq ToSet(rest)
  BY <1>a, <1>c DEF LandingsCover
<1>7. LandingsCover' BY <1>b, <1>1, <1>5, <1>6 DEF LandingsCover, LandSteps
<1>8. rest = <<>> => ToSet(rest) = {} BY DEF ToSet
<1>9. AttemptedAreAskedToLand' BY <1>1, <1>5, <1>8 DEF AttemptedAreAskedToLand
<1>10. StoppedFleetIsDown'
  BY <1>1, <1>6, <1>8 DEF StoppedFleetIsDown, Outcome, Flown
<1> QED BY <1>2, <1>3, <1>4, <1>7, <1>9, <1>10 DEF FlightInv

\* The landing of a sequence that failed goes on, or is over.
LEMMA SequenceAdvances ==
    ASSUME FlightInv, NEW ok \in BOOLEAN, launch.step \in LandSteps, Advances("sequence", ok),
           Flyers', asked' = asked \cup {Head(launch.todo)},
           UNCHANGED <<selected, armed, sent, manual>>
    PROVE  FlightInv'
<1> DEFINE rest == Tail(launch.todo)
<1>a. FleetTypes /\ SentInOrder /\ LaunchShape /\ LandingsCover BY DEF FlightInv
<1>b. /\ launch.todo \in Seq(Drones) /\ launch.todo # <<>> /\ fleet.step = "idle"
      /\ launch.at \in Nat
  BY <1>a DEF FleetTypes, LaunchShape, LandingsCover, LandSteps
<1>c. /\ Head(launch.todo) \in Drones /\ rest \in Seq(Drones)
      /\ ToSet(launch.todo) = {Head(launch.todo)} \cup ToSet(rest)
  BY <1>b, HeadAndRest
<1>1. /\ rest = <<>> => launch' = NoLaunch /\ phase' = "failed"
      /\ rest # <<>> => /\ launch' = [step |-> "land", at |-> launch.at, todo |-> rest]
                        /\ phase' = "landing"
      /\ UNCHANGED <<fleet, bridge>>
  BY <1>a DEF Advances, Lander, FleetTypes
<1> HIDE DEF rest
<1>2. FleetTypes'
  BY <1>a, <1>b, <1>c, <1>1 DEF FleetTypes, LandSteps, NoLaunch
<1>3. SentInOrder' BY <1>a DEF SentInOrder
<1>4. LaunchShape' BY <1>a, <1>b, <1>1 DEF LaunchShape, Launching, LandSteps, NoLaunch
<1>5. ToSet(sent) \subseteq asked' \cup ToSet(rest) BY <1>a, <1>c DEF LandingsCover
<1>7. LandingsCover' BY <1>b, <1>1, <1>5 DEF LandingsCover, LandSteps, NoLaunch
<1>8. rest = <<>> => ToSet(rest) = {} BY DEF ToSet
<1>9. AttemptedAreAskedToLand' /\ StoppedFleetIsDown'
  BY <1>1, <1>5, <1>8 DEF AttemptedAreAskedToLand, StoppedFleetIsDown
<1> QED BY <1>2, <1>3, <1>4, <1>7, <1>9 DEF FlightInv

\* A sequence that failed lands what it sent.
LEMMA SequenceFails ==
    ASSUME FlightInv, launch.step \in Launching, FailsWith(sent), Flyers',
           UNCHANGED <<bridge, fleet, selected, armed, sent, asked, manual>>
    PROVE  FlightInv'
<1>a. FleetTypes /\ SentInOrder /\ LaunchShape /\ LandingsCover BY DEF FlightInv
<1>b. fleet.step = "idle" /\ sent \in Seq(Drones) /\ launch.at \in Nat
  BY <1>a DEF FleetTypes, LaunchShape, Launching
<1>1. /\ sent = <<>> => launch' = NoLaunch /\ phase' = "failed"
      /\ sent # <<>> => /\ launch' = [step |-> "land", at |-> launch.at, todo |-> sent]
                        /\ phase' = "landing"
  BY <1>a DEF FailsWith, FleetTypes
<1>2. FleetTypes' BY <1>a, <1>b, <1>1 DEF FleetTypes, LandSteps, NoLaunch
<1>3. SentInOrder' BY <1>a DEF SentInOrder
<1>4. LaunchShape' BY <1>a, <1>b, <1>1 DEF LaunchShape, Launching, LandSteps, NoLaunch
<1>5. LandingsCover' BY <1>b, <1>1 DEF LandingsCover, LandSteps, NoLaunch
<1>6. sent = <<>> => ToSet(sent) = {} BY DEF ToSet
<1>7. AttemptedAreAskedToLand' /\ StoppedFleetIsDown'
  BY <1>1, <1>6 DEF AttemptedAreAskedToLand, StoppedFleetIsDown
<1> QED BY <1>2, <1>3, <1>4, <1>5, <1>7 DEF FlightInv

LEMMA FlightInvInit == FlightInit => FlightInv
<1> SUFFICES ASSUME FlightInit PROVE FlightInv
  OBVIOUS
<1>1. Flyers BY DEF FlightInit, Flyers
<1>2. FleetTypes BY DEF FlightInit, FleetTypes, Waiting, NoLaunch, FleetSteps
<1>3. SentInOrder /\ LaunchShape /\ LandingsCover
  BY DEF FlightInit, SentInOrder, LaunchShape, LandingsCover, Waiting, NoLaunch, Launching,
         LandSteps
<1>4. AttemptedAreAskedToLand /\ StoppedFleetIsDown
  BY DEF FlightInit, AttemptedAreAskedToLand, StoppedFleetIsDown
<1> QED BY <1>1, <1>2, <1>3, <1>4 DEF FlightInv

LEMMA FlightInvStep == FlightInv /\ [FlightNext]_flightVars => FlightInv'
<1> SUFFICES ASSUME FlightInv, [FlightNext]_flightVars PROVE FlightInv'
  OBVIOUS
<1>a. /\ Flyers /\ FleetTypes /\ SentInOrder /\ LaunchShape /\ LandingsCover
      /\ AttemptedAreAskedToLand /\ StoppedFleetIsDown
  BY DEF FlightInv
<1>b. selected \in Seq(Drones) /\ (selected = <<>> \/ selected \in Orders)
  BY <1>a, SelectedIsOrder
<1>c. UNCHANGED <<serviceVars, leftover>> => Flyers' BY <1>a DEF serviceVars, Flyers
<1>d. launch.step \in Launching => selected[launch.at] \in Drones
  BY <1>a, <1>b, ElementOfSeq DEF LaunchShape, Launching
<1>e. \A n \in Nat : n = Len(sent) => SubSeq(selected, 1, n) = sent
  BY <1>a, SentIsPart
<1>1. ASSUME NEW order \in Orders, ArmReads(order) PROVE FlightInv'
  <2>1. order \in Seq(Drones) BY FleetAssumption
  <2>2. /\ fleet.step = "idle" /\ launch = NoLaunch
        /\ fleet' = [step |-> "arming", todo |-> order, ok |-> fleet.ok]
        /\ UNCHANGED <<serviceVars, leftover, bridge, launch, selected, armed, phase, manual,
                       sent, asked>>
    BY <1>a, <1>1 DEF ArmReads, FleetTypes, telloVars
  <2>3. FleetTypes' BY <1>a, <2>1, <2>2 DEF FleetTypes, FleetSteps
  <2>4. SentInOrder' /\ LaunchShape' /\ LandingsCover'
    BY <1>a, <2>2 DEF SentInOrder, LaunchShape, LandingsCover, NoLaunch, Launching, LandSteps
  <2>5. AttemptedAreAskedToLand' /\ StoppedFleetIsDown'
    BY <1>a, <2>2 DEF AttemptedAreAskedToLand, StoppedFleetIsDown, serviceVars
  <2> QED BY <1>c, <2>2, <2>3, <2>4, <2>5 DEF FlightInv
<1>2. CASE ArmCommits
  <2>1. /\ launch.step = "none" /\ fleet.todo \in Orders
        /\ selected' = fleet.todo /\ armed' = "yes" /\ phase' = "armed" /\ fleet' = Waiting
        /\ sent' = <<>> /\ UNCHANGED <<serviceVars, leftover, bridge, launch, manual, asked>>
    BY <1>a, <1>2 DEF ArmCommits, LaunchShape, telloVars
  <2>2. fleet.todo \in Seq(Drones) /\ fleet.todo # <<>> /\ Len(fleet.todo) \in Nat
    BY <2>1, FleetAssumption, LenProperties
  <2>3. FleetTypes' BY <1>a, <2>1 DEF FleetTypes, FleetSteps, Waiting
  <2>4. SentInOrder' /\ LaunchShape' /\ LandingsCover'
    BY <1>a, <2>1, <2>2
    DEF SentInOrder, LaunchShape, LandingsCover, NoLaunch, Launching, LandSteps, Waiting
  <2>5. AttemptedAreAskedToLand' /\ StoppedFleetIsDown'
    BY <2>1 DEF AttemptedAreAskedToLand, StoppedFleetIsDown
  <2> QED BY <1>c, <2>1, <2>3, <2>4, <2>5 DEF FlightInv
<1>3. CASE ArmRefused
  <2>1. /\ launch.step = "none" /\ fleet' = Waiting
        /\ UNCHANGED <<serviceVars, leftover, bridge, launch, selected, armed, phase, manual,
                       sent, asked>>
    BY <1>a, <1>3 DEF ArmRefused, LaunchShape, telloVars
  <2>2. FleetTypes' BY <1>a, <2>1 DEF FleetTypes, FleetSteps, Waiting
  <2>3. SentInOrder' /\ LaunchShape' /\ LandingsCover'
    BY <1>a, <2>1 DEF SentInOrder, LaunchShape, LandingsCover, Launching, LandSteps, Waiting
  <2>4. AttemptedAreAskedToLand' /\ StoppedFleetIsDown'
    BY <1>a, <2>1 DEF AttemptedAreAskedToLand, StoppedFleetIsDown, serviceVars
  <2> QED BY <1>c, <2>1, <2>2, <2>3, <2>4 DEF FlightInv
<1>4. CASE ArmGrowsLate
  <2>1. /\ armed = "yes" /\ armed' = "late"
        /\ UNCHANGED <<serviceVars, leftover, bridge, fleet, launch, selected, phase, manual,
                       sent, asked>>
    BY <1>4 DEF ArmGrowsLate, telloVars
  <2>2. FleetTypes' /\ SentInOrder' /\ LaunchShape' /\ LandingsCover'
    BY <1>a, <2>1 DEF FleetTypes, SentInOrder, LaunchShape, LandingsCover, Flown, serviceVars
  <2>3. AttemptedAreAskedToLand' /\ StoppedFleetIsDown'
    BY <1>a, <2>1 DEF AttemptedAreAskedToLand, StoppedFleetIsDown, serviceVars
  <2> QED BY <1>c, <2>1, <2>2, <2>3 DEF FlightInv
<1>5. CASE ArmExpires
  <2>1. /\ armed = "late" /\ armed' = "no" /\ phase' = "expired"
        /\ UNCHANGED <<serviceVars, leftover, bridge, fleet, launch, selected, manual, sent,
                       asked>>
    BY <1>5 DEF ArmExpires, telloVars
  <2>2. launch.step = "none" /\ fleet.step \notin LandSteps
    BY <1>a, <2>1 DEF LaunchShape
  <2>3. FleetTypes' /\ SentInOrder' /\ LaunchShape' /\ LandingsCover'
    BY <1>a, <2>1, <2>2
    DEF FleetTypes, SentInOrder, LaunchShape, LandingsCover, LandSteps, Launching
  <2>4. AttemptedAreAskedToLand' /\ StoppedFleetIsDown'
    BY <1>a, <2>1 DEF AttemptedAreAskedToLand, StoppedFleetIsDown
  <2> QED BY <1>c, <2>1, <2>3, <2>4 DEF FlightInv
<1>6. CASE Trigger
  <2>1. /\ fleet.step = "idle" /\ armed = "yes" /\ armed' = "no" /\ phase' = "launching"
        /\ launch' = [step |-> "check", at |-> 1, todo |-> <<>>] /\ sent = <<>>
        /\ UNCHANGED <<serviceVars, leftover, bridge, fleet, selected, manual, sent, asked>>
    BY <1>a, <1>6 DEF Trigger, telloVars, NoLaunch, SentInOrder
  <2>2. Len(sent) = 0 /\ selected # <<>> /\ Len(selected) \in Nat \ {0}
    <3>1. selected # <<>> BY <1>a, <2>1 DEF SentInOrder
    <3> QED BY <1>b, <2>1, <3>1, EmptySeq
  <2>3. FleetTypes'
    BY <1>a, <2>1, <2>2 DEF FleetTypes, FleetSteps, Launching, LandSteps, NoLaunch
  <2>4. SentInOrder' /\ LaunchShape' /\ LandingsCover'
    BY <1>a, <2>1, <2>2
    DEF SentInOrder, LaunchShape, LandingsCover, NoLaunch, Launching, LandSteps
  <2>5. AttemptedAreAskedToLand' /\ StoppedFleetIsDown'
    BY <1>a, <2>1, <2>2 DEF AttemptedAreAskedToLand, StoppedFleetIsDown, NoLaunch
  <2> QED BY <1>c, <2>1, <2>3, <2>4, <2>5 DEF FlightInv
<1>7. CASE Stop \/ BridgeCloses
  <2>1. LaunchCall # <<>> => \E a \in {"takeoff", "land"}, d \in Drones : LaunchCall = <<a, d>>
    <3>1. launch.step = "land" => Head(launch.todo) \in Drones
      BY <1>a, HeadAndRest DEF LandingsCover, FleetTypes, LandSteps
    <3>2. launch.step = "takeoff" => selected[launch.at] \in Drones BY <1>d DEF Launching
    <3>3. CASE launch.step = "takeoff" BY <3>2, <3>3 DEF LaunchCall
    <3>4. CASE launch.step = "land" BY <3>1, <3>4 DEF LaunchCall
    <3> QED BY <3>3, <3>4 DEF LaunchCall
  <2>2. fleet.step = "land" => Head(fleet.todo) \in Drones
    BY <1>a, HeadAndRest DEF LandingsCover, FleetTypes, LandSteps
  <2>3. ASSUME NEW a \in {"takeoff", "land"}, NEW d \in Drones, LeavesBehind("fleet", a, d)
        PROVE  Flyers'
    <3>1. CASE leftover' = leftover \cup {[who |-> "fleet", a |-> a, d |-> d]}
          /\ UNCHANGED serviceVars
      BY <1>a, <3>1 DEF Flyers, Calls, serviceVars
    <3>2. CASE Has("fleet", a, d) /\ UNCHANGED leftover
      BY <1>a, <3>2, HasMoves DEF Flyers
    <3> QED BY <2>3, <3>1, <3>2 DEF LeavesBehind
  <2>4. Flyers'
    <3>1. CASE LaunchCall # <<>>
      <4>1. PICK a \in {"takeoff", "land"}, d \in Drones : LaunchCall = <<a, d>> BY <2>1, <3>1
      <4>2. LaunchCall[1] = a /\ LaunchCall[2] = d BY <4>1
      <4>3. LeavesBehind("fleet", LaunchCall[1], LaunchCall[2])
        BY <1>7, <3>1 DEF Stop, BridgeCloses
      <4>4. LeavesBehind("fleet", a, d) BY <4>2, <4>3
      <4> QED BY <2>3, <4>4
    <3>2. CASE LaunchCall = <<>>
      BY <1>7, <1>c, <2>2, <2>3, <3>2 DEF Stop, BridgeCloses, NothingBehind
    <3> QED BY <3>1, <3>2
  <2>5. StopBegins /\ bridge' \in {"up", "closing", "down"}
                   /\ UNCHANGED <<selected, sent, asked, manual>>
    BY <1>a, <1>7 DEF Stop, BridgeCloses, FleetTypes, telloVars
  <2> QED BY <2>4, <2>5, StopKeeps
<1>8. CASE BridgeStarts
  <2>1. /\ bridge' = "up" /\ fleet' = Waiting /\ launch' = NoLaunch
        /\ selected' = <<>> /\ armed' = "no" /\ phase' = "idle" /\ sent' = <<>>
        /\ UNCHANGED <<serviceVars, leftover, manual, asked>>
    BY <1>8 DEF BridgeStarts, telloVars
  <2>2. FleetTypes' BY <1>a, <2>1 DEF FleetTypes, FleetSteps, Waiting, NoLaunch
  <2>3. SentInOrder' /\ LaunchShape' /\ LandingsCover'
    BY <2>1 DEF SentInOrder, LaunchShape, LandingsCover, NoLaunch, Launching, LandSteps, Waiting
  <2>4. AttemptedAreAskedToLand' /\ StoppedFleetIsDown'
    BY <2>1 DEF AttemptedAreAskedToLand, StoppedFleetIsDown
  <2> QED BY <1>c, <2>1, <2>2, <2>3, <2>4 DEF FlightInv
<1>9. CASE LaunchCheck
  <2>0. /\ launch.step = "check" /\ launch.at \in 1..Len(selected) /\ Len(sent) = launch.at - 1
        /\ selected[launch.at] \in Drones /\ LaunchedOnly = sent
        /\ UNCHANGED <<serviceVars, leftover, bridge, fleet, selected, armed, manual>>
    <3>1. launch.step = "check" /\ launch.at \in 1..Len(selected) /\ Len(sent) = launch.at - 1
      BY <1>a, <1>9 DEF LaunchCheck, LaunchShape
    <3> QED
      BY <1>d, <1>e, <1>9, <3>1, <1>b, LenProperties
      DEF LaunchCheck, Launching, LaunchedOnly, telloVars
  <2>1. CASE FailsWith(LaunchedOnly) /\ UNCHANGED <<sent, asked>>
    BY <1>c, <2>0, <2>1, SequenceFails DEF Launching
  <2>2. CASE /\ launch' = [launch EXCEPT !.step = "takeoff"]
             /\ sent' = Append(sent, selected[launch.at])
             /\ asked' = asked \ {selected[launch.at]} /\ UNCHANGED phase
    <3>1. /\ launch' = [step |-> "takeoff", at |-> launch.at, todo |-> launch.todo]
          /\ fleet.step = "idle" /\ armed = "no" /\ phase = "launching"
      BY <1>a, <2>0, <2>2 DEF FleetTypes, LaunchShape, Launching
    <3>2. /\ sent' \in Seq(Drones) /\ Len(sent') = launch.at
          /\ \A i \in 1..launch.at : sent'[i] = selected[i]
      <4>1. sent \in Seq(Drones) BY <1>a DEF FleetTypes
      <4> QED BY <1>a, <2>0, <2>2, <4>1, AppendProperties DEF SentInOrder
    <3>3. FleetTypes'
      BY <1>a, <2>0, <2>2, <3>1, <3>2 DEF FleetTypes, FleetSteps, Launching, LandSteps, NoLaunch
    <3>4. SentInOrder' /\ LaunchShape' /\ LandingsCover'
      BY <1>a, <2>0, <2>2, <3>1, <3>2
      DEF SentInOrder, LaunchShape, LandingsCover, NoLaunch, Launching, LandSteps
    <3>5. AttemptedAreAskedToLand' /\ StoppedFleetIsDown'
      BY <1>a, <2>0, <2>2, <3>1, <3>2 DEF AttemptedAreAskedToLand, StoppedFleetIsDown, NoLaunch
    <3> QED BY <1>c, <2>0, <3>3, <3>4, <3>5 DEF FlightInv
  <2> QED BY <1>9, <2>1, <2>2 DEF LaunchCheck
<1>10. CASE LaunchTakeoff
  <2>1. /\ launch.step = "takeoff" /\ launch.at \in 1..Len(selected) /\ Len(sent) = launch.at
        /\ selected[launch.at] \in Drones /\ Attempted = sent /\ fleet.step = "idle"
        /\ UNCHANGED <<leftover, bridge, fleet, selected, armed, sent, asked, manual>>
    <3>1. /\ launch.step = "takeoff" /\ launch.at \in 1..Len(selected) /\ Len(sent) = launch.at
          /\ fleet.step = "idle"
      BY <1>a, <1>10 DEF LaunchTakeoff, LaunchShape, Launching
    <3> QED
      BY <1>d, <1>e, <1>10, <3>1, <1>b, LenProperties
      DEF LaunchTakeoff, Launching, Attempted, telloVars
  <2>2. Flyers'
    BY <1>a, <1>10, <2>1, HasMoves DEF LaunchTakeoff, Accepted, Raised, Flyers, serviceVars
  <2>3. CASE FailsWith(Attempted)
    BY <2>1, <2>2, <2>3, SequenceFails DEF Launching
  <2>4. CASE launch' = [launch EXCEPT !.step = "flying?"] /\ UNCHANGED phase
    <3>1. /\ launch' = [step |-> "flying?", at |-> launch.at, todo |-> launch.todo]
          /\ armed = "no" /\ phase = "launching"
      BY <1>a, <2>1, <2>4 DEF FleetTypes, LaunchShape, Launching
    <3>2. FleetTypes'
      BY <1>a, <2>1, <2>4, <3>1 DEF FleetTypes, FleetSteps, Launching, LandSteps, NoLaunch
    <3>3. SentInOrder' /\ LaunchShape' /\ LandingsCover'
      BY <1>a, <2>1, <2>4, <3>1
      DEF SentInOrder, LaunchShape, LandingsCover, NoLaunch, Launching, LandSteps
    <3>4. AttemptedAreAskedToLand' /\ StoppedFleetIsDown'
      BY <1>a, <2>1, <2>4, <3>1 DEF AttemptedAreAskedToLand, StoppedFleetIsDown, NoLaunch
    <3> QED BY <2>2, <3>2, <3>3, <3>4 DEF FlightInv
  <2> QED BY <1>10, <2>3, <2>4 DEF LaunchTakeoff
<1>11. CASE LaunchWait
  <2>1. /\ launch.step = "flying?" /\ launch.at \in 1..Len(selected) /\ Len(sent) = launch.at
        /\ Attempted = sent /\ fleet.step = "idle" /\ armed = "no"
        /\ UNCHANGED <<serviceVars, leftover, bridge, fleet, selected, armed, sent, asked,
                       manual>>
    <3>1. /\ launch.step = "flying?" /\ launch.at \in 1..Len(selected) /\ Len(sent) = launch.at
          /\ fleet.step = "idle" /\ armed = "no"
      BY <1>a, <1>11 DEF LaunchWait, LaunchShape, Launching
    <3> QED BY <1>e, <1>11, <3>1, <1>b, LenProperties DEF LaunchWait, Attempted, telloVars
  <2>2. CASE FailsWith(Attempted)
    BY <1>c, <2>1, <2>2, SequenceFails DEF Launching
  <2>3. CASE MoreToLaunch /\ launch' = [launch EXCEPT !.step = "pause"] /\ UNCHANGED phase
    <3>1. /\ launch' = [step |-> "pause", at |-> launch.at, todo |-> launch.todo]
          /\ phase = "launching" /\ launch.at < Len(selected)
      BY <1>a, <2>1, <2>3 DEF FleetTypes, LaunchShape, Launching, MoreToLaunch
    <3>2. FleetTypes'
      BY <1>a, <2>1, <2>3, <3>1 DEF FleetTypes, FleetSteps, Launching, LandSteps, NoLaunch
    <3>3. SentInOrder' /\ LaunchShape' /\ LandingsCover'
      BY <1>a, <2>1, <2>3, <3>1
      DEF SentInOrder, LaunchShape, LandingsCover, NoLaunch, Launching, LandSteps
    <3>4. AttemptedAreAskedToLand' /\ StoppedFleetIsDown'
      BY <1>a, <2>1, <2>3, <3>1 DEF AttemptedAreAskedToLand, StoppedFleetIsDown, NoLaunch
    <3> QED BY <1>c, <2>1, <3>2, <3>3, <3>4 DEF FlightInv
  <2>4. CASE launch' = NoLaunch /\ phase' = "completed"
    <3>1. FleetTypes'
      BY <1>a, <2>1, <2>4 DEF FleetTypes, FleetSteps, Launching, LandSteps, NoLaunch
    <3>2. SentInOrder' /\ LaunchShape' /\ LandingsCover'
      BY <1>a, <2>1, <2>4
      DEF SentInOrder, LaunchShape, LandingsCover, NoLaunch, Launching, LandSteps
    <3>3. AttemptedAreAskedToLand' /\ StoppedFleetIsDown'
      BY <1>a, <2>1, <2>4 DEF AttemptedAreAskedToLand, StoppedFleetIsDown, NoLaunch
    <3> QED BY <1>c, <2>1, <3>1, <3>2, <3>3 DEF FlightInv
  <2> QED BY <1>11, <2>2, <2>3, <2>4 DEF LaunchWait
<1>12. CASE LaunchNext
  <2>1. /\ launch.step = "pause" /\ launch.at \in 1..Len(selected) /\ Len(sent) = launch.at
        /\ launch.at < Len(selected) /\ fleet.step = "idle" /\ armed = "no" /\ phase = "launching"
        /\ UNCHANGED <<serviceVars, leftover, bridge, fleet, selected, armed, phase, sent,
                       asked, manual>>
    BY <1>a, <1>12 DEF LaunchNext, LaunchShape, Launching, telloVars
  <2>2. /\ launch' = [step |-> "check", at |-> launch.at + 1, todo |-> launch.todo]
        /\ launch.at + 1 \in 1..Len(selected)
    <3>1. launch' = [step |-> "check", at |-> launch.at + 1, todo |-> launch.todo]
      BY <1>a, <1>12 DEF LaunchNext, FleetTypes
    <3>2. Len(selected) \in Nat BY <1>b, LenProperties
    <3> QED BY <2>1, <3>1, <3>2
  <2>3. FleetTypes'
    BY <1>a, <2>1, <2>2 DEF FleetTypes, FleetSteps, Launching, LandSteps, NoLaunch
  <2>4. SentInOrder' /\ LaunchShape' /\ LandingsCover'
    BY <1>a, <2>1, <2>2
    DEF SentInOrder, LaunchShape, LandingsCover, NoLaunch, Launching, LandSteps
  <2>5. AttemptedAreAskedToLand' /\ StoppedFleetIsDown'
    BY <1>a, <2>1, <2>2 DEF AttemptedAreAskedToLand, StoppedFleetIsDown, NoLaunch
  <2> QED BY <1>c, <2>1, <2>3, <2>4, <2>5 DEF FlightInv
<1>13. CASE LandCall("stop")
  <2>1. /\ fleet.step = "land" /\ fleet.todo # <<>> /\ launch.step = "none" /\ phase = "landing"
        /\ asked' = asked \cup {Head(fleet.todo)} /\ Head(fleet.todo) \in Drones
        /\ UNCHANGED <<leftover, selected, armed, sent, manual>>
    BY <1>a, <1>13, HeadAndRest
    DEF LandCall, Lander, LaunchShape, LandingsCover, LandSteps, FleetTypes, telloVars
  <2>2. Flyers' /\ Flown' \subseteq Flown
    BY <1>a, <1>13, <2>1, HasMoves
    DEF LandCall, Lander, Accepted, Raised, Flyers, Flown, serviceVars
  <2>3. CASE Advances("stop", FALSE)
    BY <2>1, <2>2, <2>3, StopAdvances DEF LandSteps
  <2>4. CASE /\ fleet' = [fleet EXCEPT !.step = "landed?"] /\ UNCHANGED <<launch, phase, bridge>>
    <3>1. fleet' = [step |-> "landed?", todo |-> fleet.todo, ok |-> fleet.ok]
      BY <1>a, <2>4 DEF FleetTypes
    <3>2. FleetTypes' BY <1>a, <2>1, <2>4, <3>1 DEF FleetTypes, FleetSteps
    <3>3. SentInOrder' /\ LaunchShape'
      BY <1>a, <2>1, <2>4, <3>1 DEF SentInOrder, LaunchShape, Launching, LandSteps
    <3>4. LandingsCover' BY <1>a, <2>1, <2>2, <2>4, <3>1 DEF LandingsCover, LandSteps
    <3>5. AttemptedAreAskedToLand' /\ StoppedFleetIsDown'
      BY <2>1, <2>4 DEF AttemptedAreAskedToLand, StoppedFleetIsDown
    <3> QED BY <2>2, <3>2, <3>3, <3>4, <3>5 DEF FlightInv
  <2> QED BY <1>13, <2>3, <2>4 DEF LandCall
<1>14. CASE LandWait("stop")
  <2>1. /\ fleet.step = "landed?" /\ Head(fleet.todo) \in asked
        /\ UNCHANGED <<serviceVars, leftover, selected, armed, sent, manual, asked>>
    BY <1>a, <1>14 DEF LandWait, Lander, LandingsCover, LandSteps, telloVars
  <2>2. asked' = asked \cup {Head(fleet.todo)} /\ Flown' = Flown BY <2>1 DEF serviceVars, Flown
  <2>3. CASE Confirms(Head(fleet.todo), FALSE) /\ Advances("stop", TRUE)
    <3>1. Head(fleet.todo) \notin Flown' BY <1>a, <2>2, <2>3 DEF Confirms, Flyers, Flown
    <3> QED BY <1>c, <2>1, <2>2, <2>3, <3>1, StopAdvances DEF LandSteps
  <2>4. CASE Advances("stop", FALSE)
    BY <1>c, <2>1, <2>2, <2>4, StopAdvances DEF LandSteps
  <2> QED BY <1>14, <2>3, <2>4 DEF LandWait, Lander
<1>15. CASE LandCall("sequence")
  <2>1. /\ launch.step = "land" /\ launch.todo # <<>> /\ fleet.step = "idle" /\ phase = "landing"
        /\ launch.at \in 1..Len(selected) /\ armed = "no"
        /\ asked' = asked \cup {Head(launch.todo)} /\ Head(launch.todo) \in Drones
        /\ UNCHANGED <<leftover, selected, armed, sent, manual>>
    BY <1>a, <1>15, HeadAndRest
    DEF LandCall, Lander, LaunchShape, LandingsCover, LandSteps, FleetTypes, telloVars
  <2>2. Flyers'
    BY <1>a, <1>15, <2>1, HasMoves DEF LandCall, Lander, Accepted, Raised, Flyers, serviceVars
  <2>3. CASE Advances("sequence", FALSE)
    BY <2>1, <2>2, <2>3, SequenceAdvances DEF LandSteps
  <2>4. CASE launch' = [launch EXCEPT !.step = "landed?"] /\ UNCHANGED <<fleet, phase, bridge>>
    <3>1. launch' = [step |-> "landed?", at |-> launch.at, todo |-> launch.todo]
      BY <1>a, <2>4 DEF FleetTypes
    <3>2. FleetTypes' BY <1>a, <2>1, <2>4, <3>1 DEF FleetTypes, LandSteps
    <3>3. SentInOrder' /\ LaunchShape'
      BY <1>a, <2>1, <2>4, <3>1 DEF SentInOrder, LaunchShape, Launching, LandSteps
    <3>4. LandingsCover' BY <1>a, <2>1, <2>4, <3>1 DEF LandingsCover, LandSteps
    <3>5. AttemptedAreAskedToLand' /\ StoppedFleetIsDown'
      BY <2>1, <2>4 DEF AttemptedAreAskedToLand, StoppedFleetIsDown
    <3> QED BY <2>2, <3>2, <3>3, <3>4, <3>5 DEF FlightInv
  <2> QED BY <1>15, <2>3, <2>4 DEF LandCall
<1>16. CASE LandWait("sequence")
  <2>1. /\ launch.step = "landed?" /\ Head(launch.todo) \in asked
        /\ UNCHANGED <<serviceVars, leftover, selected, armed, sent, manual, asked>>
    BY <1>a, <1>16 DEF LandWait, Lander, LandingsCover, LandSteps, telloVars
  <2>2. asked' = asked \cup {Head(launch.todo)} BY <2>1
  <2>3. Advances("sequence", TRUE) \/ Advances("sequence", FALSE) BY <1>16 DEF LandWait
  <2> QED BY <1>c, <2>1, <2>2, <2>3, SequenceAdvances DEF LandSteps
<1>17. ASSUME NEW c \in leftover, LeftoverCall(c) PROVE FlightInv'
  <2>1. c.a \in {"takeoff", "land", "emergency"} /\ c.d \in Drones BY <1>a DEF Flyers, Calls
  <2>2. leftover' \subseteq Calls BY <1>a, <1>17 DEF LeftoverCall, Flyers
  <2>3. Flyers' /\ Flown' \subseteq Flown
    <3>1. CASE c.a # "takeoff" /\ Accepted(c.who, c.a, c.d)
      BY <1>a, <2>1, <2>2, <3>1, HasMoves DEF Accepted
    <3>2. CASE UNCHANGED serviceVars BY <1>a, <2>2, <3>2 DEF Flyers, Flown, serviceVars
    <3>3. CASE /\ flying' = flying \cup {c.d} /\ late' = late \cup {c.d}
               /\ fleetAir' = IF c.who = "fleet" THEN fleetAir \cup {c.d} ELSE fleetAir
      BY <1>a, <2>1, <2>2, <3>3 DEF Flyers, Flown
    <3> QED BY <1>17, <3>1, <3>2, <3>3 DEF LeftoverCall
  <2> QED BY <1>a, <1>17, <2>3, FleetStays DEF LeftoverCall, telloVars, FleetTypes
<1>18. ASSUME NEW m \in Manual, TelloStep(m) PROVE FlightInv'
  <2>0. m \in Drones BY FleetAssumption
  <2>1. DOMAIN manual' = Manual /\ UNCHANGED <<fleetVars, sent, asked, leftover>>
    BY <1>a, <1>18
    DEF TelloStep, FrameIsRead, TelloIsDown, TelloCall, TelloWait, TelloMoves, TelloEnds,
        Untouched, FleetTypes
  <2>2. UNCHANGED serviceVars \/ \E aim : Has("tello", aim, m)
    BY <1>18
    DEF TelloStep, FrameIsRead, TelloIsDown, TelloCall, TelloWait, TelloMoves, Accepted, Raised
  <2>3. Flyers' /\ Flown' \subseteq Flown
    BY <1>a, <2>0, <2>1, <2>2, HasMoves DEF Flyers, Flown, serviceVars
  <2> QED BY <2>1, <2>3, FleetStays
<1>19. ASSUME NEW m \in Manual, NEW aim \in {"takeoff", "move", "land", "emergency"},
              TelloCommand(m, aim) \/ FrameArrives(m, aim)
       PROVE  FlightInv'
  <2>1. DOMAIN manual' = Manual /\ UNCHANGED <<fleetVars, sent, asked, leftover, serviceVars>>
    BY <1>a, <1>19 DEF TelloCommand, FrameArrives, Untouched, FleetTypes
  <2> QED BY <1>c, <2>1, FleetStays DEF serviceVars, Flown
<1>20. ASSUME NEW m \in Manual, TelloCloses(m) PROVE FlightInv'
  <2>0. m \in Drones BY FleetAssumption
  <2>1. DOMAIN manual' = Manual /\ UNCHANGED <<fleetVars, sent, asked>>
    BY <1>a, <1>20 DEF TelloCloses, Untouched, FleetTypes
  <2>2. Flyers' /\ Flown' \subseteq Flown
    <3>1. CASE UNCHANGED serviceVars /\ leftover' \subseteq Calls
      BY <1>a, <3>1 DEF Flyers, Flown, serviceVars
    <3>2. CASE Has("tello", manual[m].step, m) /\ UNCHANGED leftover
      BY <1>a, <2>0, <3>2, HasMoves DEF Flyers
    <3>3. CASE /\ manual[m].step \in {"takeoff", "land", "emergency"}
               /\ leftover' = leftover \cup {[who |-> "tello", a |-> manual[m].step, d |-> m]}
               /\ UNCHANGED serviceVars
      BY <1>a, <2>0, <3>3 DEF Flyers, Flown, Calls, serviceVars
    <3> QED
      BY <1>a, <1>20, <3>1, <3>2, <3>3 DEF TelloCloses, LeavesBehind, NothingBehind, Flyers
  <2> QED BY <2>1, <2>2, FleetStays
<1>21. ASSUME NEW m \in Manual, TelloStarts(m) PROVE FlightInv'
  <2>1. DOMAIN manual' = Manual /\ UNCHANGED <<fleetVars, sent, asked, leftover, serviceVars>>
    BY <1>a, <1>21 DEF TelloStarts, Untouched, FleetTypes
  <2> QED BY <1>c, <2>1, FleetStays DEF serviceVars, Flown
<1>22. CASE UNCHANGED flightVars
  <2>1. DOMAIN manual' = Manual /\ UNCHANGED <<fleetVars, sent, asked, leftover, serviceVars>>
    BY <1>a, <1>22 DEF flightVars, telloVars, FleetTypes
  <2> QED BY <1>c, <2>1, FleetStays DEF serviceVars, Flown
<1> QED
  BY <1>1, <1>2, <1>3, <1>4, <1>5, <1>6, <1>7, <1>8, <1>9, <1>10, <1>11, <1>12, <1>13, <1>14,
     <1>15, <1>16, <1>17, <1>18, <1>19, <1>20, <1>21, <1>22
  DEF FlightNext, Arming, SequenceStep, Landing

(* An arm launches each selected aircraft once and in order; what the      *)
(* sequence may have launched is asked to land before a stop or a failure  *)
(* is reported; and a fleet that reports that it is stopped has no selected *)
(* aircraft in the air but what a cancelled task left (the launch sequence, *)
(* the stop and the close of the fleet).                                   *)
THEOREM FlightSafety ==
    FlightSpec => [](FlightTypeOK /\ OneLaunchPerArm /\ AttemptedAreAskedToLand
                     /\ StoppedFleetIsDown)
<1>1. ASSUME FlightInv PROVE FlightTypeOK
  <2>1. selected \in Seq(Drones) /\ DOMAIN selected = 1..Len(selected)
    BY <1>1, SelectedIsOrder, LenProperties DEF FlightInv
  <2> QED
    BY <1>1, <2>1
    DEF FlightInv, Flyers, FleetTypes, LaunchShape, FlightTypeOK, Calls, FleetSteps, Launching,
        LandSteps
<1>2. FlightInv => OneLaunchPerArm BY SentIsPart DEF FlightInv, OneLaunchPerArm
<1>3. FlightInv => AttemptedAreAskedToLand /\ StoppedFleetIsDown BY DEF FlightInv
<1> QED BY FlightInvInit, FlightInvStep, <1>1, <1>2, <1>3, PTL DEF FlightSpec
-----------------------------------------------------------------------------
(* The LEGO hub and its adapter. *)

FrameOps == {"run", "halt", "drive", "stop", "beat", "read"}

\* What is sent to one motor names its port.
Frames == {f \in [op : FrameOps, port : Ports \cup {"ALL"}, id : FrameIds] :
             f.op = "run" => f.port \in Ports}

Underway == {"starting", "executing", "failed"}
Motions == {"run", "part", "halt", "drive", "demo"}

Receivers == [step : {"idle", "cancelling"} \cup Underway,
              next : {"none", "stop"} \cup Motions]

LinkTypes == hubLink \in BOOLEAN /\ connected \in BOOLEAN

HostTypes ==
    /\ host \in Hosts /\ receiver \in Receivers
    /\ demo \in {"none", "pausing", "pulsing", "ending"}
    /\ fabricSees \in {"connected", "degraded"}
    /\ lastMotion \in {"stop"} \cup Motions

HubTypes ==
    /\ running \subseteq Ports /\ watched \in BOOLEAN /\ driving \in BOOLEAN
    /\ silent \in BOOLEAN /\ partStopped \in BOOLEAN

FramesOK ==
    /\ toHub \in Seq(Frames) /\ Len(toHub) <= MaxInFlight /\ toHost \in Seq(Lines)
    /\ waiting \in [Tasks -> FrameIds \cup {0}] /\ executed \subseteq FrameIds

\* The drive the hub is in has not left the line, and what is acknowledged was
\* executed: an identifier is used again only when nothing bears it any more.
DrivesFirst == driving => toHub # <<>> /\ Head(toHub).id \in executed
AcksTell == \A i \in 1..Len(toHost) : toHost[i].op = "ack" => toHost[i].id \in executed
LinesInv == FramesOK /\ DrivesFirst /\ AcksTell

\* A command of the bridge is under way only when no demonstration is.
ReceiverShape ==
    /\ receiver.step = "idle" => receiver = Idling
    /\ receiver.step = "cancelling" => receiver.next \in {"stop"} \cup Motions
    /\ receiver.step \in Underway => receiver.next \in Motions
    /\ host = "bridge" /\ receiver.step \in Underway => demo = "none"

DemoStopped == demo = "none" /\ hubLink => lastMotion # "demo"

HostInv == HostTypes /\ ReceiverShape /\ DemoStopped
HubInv == HubTypes /\ WatchedUnlessPartStopped

LegoInv == LinesInv /\ LinkTypes /\ HostInv /\ HubInv

LEMMA IdIsFree ==
    ASSUME FreeIds # {}
    PROVE  /\ Id \in FrameIds
           /\ \A f \in ToSet(toHub) \cup ToSet(toHost) : f.id # Id
<1>1. Id \in FreeIds BY DEF Id
<1> QED BY <1>1 DEF FreeIds

LEMMA SendLines ==
    ASSUME LinesInv, NEW op \in FrameOps, NEW port \in Ports \cup {"ALL"},
           op = "run" => port \in Ports, Send(op, port),
           UNCHANGED <<toHost, driving>>, waiting' \in [Tasks -> FrameIds \cup {0}]
    PROVE  LinesInv'
<1> DEFINE frame == [op |-> op, port |-> port, id |-> Id]
<1>1. /\ Len(toHub) < MaxInFlight /\ toHub' = Append(toHub, frame) /\ executed' = executed \ {Id}
      /\ Id \in FrameIds /\ \A f \in ToSet(toHub) \cup ToSet(toHost) : f.id # Id
      /\ toHub \in Seq(Frames) /\ toHost \in Seq(Lines) /\ executed \subseteq FrameIds
  BY IdIsFree DEF Send, LinesInv, FramesOK
<1>2. frame \in Frames BY <1>1 DEF Frames
<1> HIDE DEF frame
<1>3. /\ toHub' \in Seq(Frames) /\ Len(toHub') = Len(toHub) + 1 /\ Len(toHub) \in Nat
      /\ toHub # <<>> => /\ Head(toHub') = Head(toHub) /\ Head(toHub) = toHub[1]
                       /\ 1 \in DOMAIN toHub
  BY <1>1, <1>2, AppendProperties, EmptySeq, LenProperties
<1>4. FramesOK' BY <1>1, <1>3, LegoAssumption DEF FramesOK, LinesInv
<1>5. DrivesFirst'
  BY <1>1, <1>3, AppendProperties, <1>2 DEF DrivesFirst, LinesInv, ToSet
<1>6. DOMAIN toHost = 1..Len(toHost) BY <1>1, LenProperties
<1>7. AcksTell' BY <1>1, <1>6 DEF AcksTell, LinesInv, ToSet
<1> QED BY <1>4, <1>5, <1>7 DEF LinesInv

LEMMA BestEffortLines ==
    ASSUME LinesInv, NEW op \in FrameOps \ {"run"}, SendBestEffort(op), UNCHANGED <<waiting,
                                                                                    driving>>
    PROVE  LinesInv' /\ (UNCHANGED connected \/ connected' = FALSE)
<1>1. CASE hubLink
  <2>1. waiting' \in [Tasks -> FrameIds \cup {0}] BY DEF LinesInv, FramesOK
  <2> QED BY <1>1, <2>1, SendLines DEF SendBestEffort
<1>2. CASE ~hubLink
  <2>1. LinesInv' BY <1>2 DEF SendBestEffort, LinesInv, FramesOK, DrivesFirst, AcksTell
  <2>2. connected' = FALSE BY <1>2 DEF SendBestEffort
  <2> QED BY <2>1, <2>2
<1> QED BY <1>1, <1>2

LEMMA ExecuteLines ==
    ASSUME LinesInv, NEW t \in Tasks, NEW op \in FrameOps, NEW port \in Ports \cup {"ALL"},
           op = "run" => port \in Ports, Executes(t, op, port), UNCHANGED driving
    PROVE  LinesInv' /\ (UNCHANGED connected \/ connected' = FALSE)
<1>1. CASE hubLink
  <2>1. Send(op, port) /\ waiting' = [waiting EXCEPT ![t] = Id] /\ UNCHANGED <<connected, toHost>>
    BY <1>1 DEF Executes
  <2>2. Id \in FrameIds BY <2>1, IdIsFree DEF Send
  <2>3. waiting' \in [Tasks -> FrameIds \cup {0}] BY <2>1, <2>2 DEF LinesInv, FramesOK
  <2> QED BY <2>1, <2>3, SendLines
<1>2. CASE ~hubLink
  <2>1. LinesInv' BY <1>2 DEF Executes, LinesInv, FramesOK, DrivesFirst, AcksTell
  <2>2. connected' = FALSE BY <1>2 DEF Executes
  <2> QED BY <2>1, <2>2
<1> QED BY <1>1, <1>2

LEMMA ReadLines ==
    ASSUME LinesInv, toHost' = <<>>, NEW t \in Tasks,
           waiting' \in {waiting, [waiting EXCEPT ![t] = 0]}, UNCHANGED <<toHub, executed,
                                                                          driving>>
    PROVE  LinesInv'
<1>1. waiting' \in [Tasks -> FrameIds \cup {0}] BY DEF LinesInv, FramesOK
<1>2. FramesOK' BY <1>1, EmptySeq DEF LinesInv, FramesOK
<1>3. AcksTell' BY EmptySeq DEF AcksTell
<1> QED BY <1>2, <1>3 DEF LinesInv, DrivesFirst

LEMMA EmitLines ==
    ASSUME LinesInv, NEW line \in Lines, Emit(line), UNCHANGED waiting,
           executed \subseteq executed', executed' \subseteq FrameIds,
           line.op = "ack" => line.id \in executed',
           toHub' \in Seq(Frames), Len(toHub') <= MaxInFlight, DrivesFirst'
    PROVE  LinesInv'
<1>1. toHost \in Seq(Lines) BY DEF LinesInv, FramesOK
<1>2. CASE hubLink
  <2>1. toHost' = Append(toHost, line) BY <1>2 DEF Emit
  <2>2. /\ toHost' \in Seq(Lines) /\ Len(toHost') = Len(toHost) + 1 /\ Len(toHost) \in Nat
        /\ \A i \in 1..Len(toHost) : toHost'[i] = toHost[i]
        /\ toHost'[Len(toHost) + 1] = line
    BY <1>1, <2>1, AppendProperties, LenProperties
  <2>3. AcksTell'
    <3> SUFFICES ASSUME NEW i \in 1..Len(toHost'), toHost'[i].op = "ack"
                 PROVE  toHost'[i].id \in executed'
      BY DEF AcksTell
    <3>1. CASE i = Len(toHost) + 1 BY <2>2, <3>1
    <3>2. CASE i # Len(toHost) + 1
      <4>1. i \in 1..Len(toHost) BY <2>2, <3>2
      <4> QED BY <2>2, <4>1 DEF LinesInv, AcksTell
    <3> QED BY <3>1, <3>2
  <2> QED BY <2>2, <2>3 DEF LinesInv, FramesOK
<1>3. CASE ~hubLink BY <1>3 DEF Emit, LinesInv, FramesOK, AcksTell
<1> QED BY <1>2, <1>3

LEMMA LinkKeeps ==
    ASSUME LinkTypes, UNCHANGED hubLink \/ hubLink' = FALSE,
           UNCHANGED connected \/ connected' = FALSE
    PROVE  LinkTypes'
<1>1. hubLink' \in BOOLEAN BY DEF LinkTypes
<1>2. connected' \in BOOLEAN BY DEF LinkTypes
<1> QED BY <1>1, <1>2 DEF LinkTypes

LEMMA HostKeeps ==
    ASSUME HostInv, UNCHANGED <<host, receiver, demo, lastMotion>>,
           hubLink' => hubLink, fabricSees' \in {"connected", "degraded"}
    PROVE  HostInv'
BY DEF HostInv, HostTypes, ReceiverShape, DemoStopped

LEMMA HubKeeps ==
    ASSUME HubInv, UNCHANGED hubVars
    PROVE  HubInv'
<1>1. HubTypes' BY DEF HubInv, HubTypes, hubVars
<1>2. WatchedUnlessPartStopped' BY DEF HubInv, WatchedUnlessPartStopped, hubVars
<1> QED BY <1>1, <1>2 DEF HubInv

LEMMA LegoInvInit == LegoInit => LegoInv
<1> SUFFICES ASSUME LegoInit PROVE LegoInv
  OBVIOUS
<1>1. LinesInv
  BY LegoAssumption, EmptySeq DEF LegoInit, LinesInv, FramesOK, DrivesFirst, AcksTell
<1>2. LinkTypes BY DEF LegoInit, LinkTypes
<1>3. HostInv
  BY DEF LegoInit, HostInv, HostTypes, Receivers, ReceiverShape, DemoStopped, Idling,
         Underway, Motions
<1>4. HubInv BY DEF LegoInit, HubInv, HubTypes, WatchedUnlessPartStopped
<1> QED BY <1>1, <1>2, <1>3, <1>4 DEF LegoInv

LEMMA LegoInvStep == LegoInv /\ [LegoNext]_legoVars => LegoInv'
<1> SUFFICES ASSUME LegoInv, [LegoNext]_legoVars PROVE LegoInv'
  OBVIOUS
<1> USE DEF lineVars
<1>a. LinesInv /\ LinkTypes /\ HostInv /\ HubInv
  BY DEF LegoInv
<1>b. UNCHANGED <<toHub, toHost, executed, waiting, driving>> => LinesInv'
  BY <1>a DEF LinesInv, FramesOK, DrivesFirst, AcksTell
<1>c. ASSUME NEW t \in Tasks, toHost' = <<>>, UNCHANGED <<toHub, executed, driving>>,
             UNCHANGED waiting \/ waiting' = [waiting EXCEPT ![t] = 0]
      PROVE  LinesInv'
  BY <1>a, <1>c, ReadLines
<1>1. ASSUME NEW next \in Commands, ReceiveCommand(next) PROVE LegoInv'
  <2>2. LinesInv' BY <1>b, <1>1 DEF ReceiveCommand, hubVars
  <2>3. /\ \/ receiver' = [step |-> "cancelling", next |-> next]
           \/ /\ receiver' = [step |-> "starting", next |-> next] /\ next \in Motions
              /\ host = "bridge" => demo = "none"
        /\ next \in {"stop"} \cup Motions
        /\ UNCHANGED <<host, hubLink, connected, demo, hubVars, fabricSees, lastMotion>>
    BY <1>a, <1>1 DEF ReceiveCommand, Commands, Motions, HostInv, HostTypes, Receivers
  <2>4. LinkTypes' BY <1>a, <2>2, <2>3, LinkKeeps
  <2>5. HostInv'
    <3>1. HostTypes'
      BY <1>a, <2>3 DEF HostInv, HostTypes, Receivers, Idling, Underway, Motions
    <3>2. ReceiverShape'
      BY <1>a, <2>3 DEF HostInv, HostTypes, Receivers, ReceiverShape, Idling, Underway, Motions
    <3>3. DemoStopped' BY <1>a, <2>3 DEF HostInv, DemoStopped, ReceiverShape, Underway, Motions
    <3> QED BY <3>1, <3>2, <3>3 DEF HostInv
  <2>6. HubInv' BY <1>a, <2>3, HubKeeps
  <2> QED BY <2>2, <2>4, <2>5, <2>6 DEF LegoInv
<1>2. CASE CancelDemo
  <2>1. waiting' \in [Tasks -> FrameIds \cup {0}]
    BY <1>a, <1>2 DEF CancelDemo, LinesInv, FramesOK, Tasks
  <2>2. LinesInv'
    BY <1>a, <1>2, <2>1 DEF CancelDemo, LinesInv, FramesOK, DrivesFirst, AcksTell, hubVars
  <2>3. /\ receiver.step = "cancelling" /\ demo' = "ending"
        /\ UNCHANGED <<host, hubLink, connected, receiver, hubVars, fabricSees, lastMotion>>
    BY <1>a, <1>2 DEF CancelDemo
  <2>4. LinkTypes' BY <1>a, <2>2, <2>3, LinkKeeps
  <2>5. HostInv'
    <3>1. HostTypes'
      BY <1>a, <2>3 DEF HostInv, HostTypes, Receivers, Idling, Underway, Motions
    <3>2. ReceiverShape'
      BY <1>a, <2>3 DEF HostInv, HostTypes, Receivers, ReceiverShape, Idling, Underway, Motions
    <3>3. DemoStopped' BY <1>a, <2>3 DEF HostInv, DemoStopped, ReceiverShape, Underway, Motions
    <3> QED BY <3>1, <3>2, <3>3 DEF HostInv
  <2>6. HubInv' BY <1>a, <2>3, HubKeeps
  <2> QED BY <2>2, <2>4, <2>5, <2>6 DEF LegoInv
<1>3. CASE CancelEnds
  <2>1. SendBestEffort("stop") /\ UNCHANGED <<waiting, driving>> BY <1>3 DEF CancelEnds, hubVars
  <2>2. LinesInv' /\ (UNCHANGED connected \/ connected' = FALSE)
    BY <1>a, <2>1, BestEffortLines DEF FrameOps
  <2>3. /\ lastMotion' = IF hubLink THEN "stop" ELSE lastMotion
        /\ receiver.step = "cancelling" /\ demo = "none"
        /\ receiver' = IF receiver.next = "stop" THEN Idling
                       ELSE [step |-> "starting", next |-> receiver.next]
        /\ UNCHANGED <<host, hubLink, demo, hubVars, fabricSees>>
    BY <1>a, <1>3 DEF CancelEnds, DemoIsOver, Interrupted, HostInv, HostTypes, Receivers
  <2>4. LinkTypes' BY <1>a, <2>2, <2>3, LinkKeeps
  <2>5. HostInv'
    <3>1. HostTypes'
      BY <1>a, <2>3 DEF HostInv, HostTypes, Receivers, Idling, Underway, Motions
    <3>2. ReceiverShape'
      BY <1>a, <2>3 DEF HostInv, HostTypes, Receivers, ReceiverShape, Idling, Underway, Motions
    <3>3. DemoStopped' BY <1>a, <2>3 DEF HostInv, DemoStopped, ReceiverShape, Underway, Motions
    <3> QED BY <3>1, <3>2, <3>3 DEF HostInv
  <2>6. HubInv' BY <1>a, <2>3, HubKeeps
  <2> QED BY <2>2, <2>4, <2>5, <2>6 DEF LegoInv
<1>4. CASE StartDemo
  <2>2. LinesInv' BY <1>b, <1>4 DEF StartDemo, hubVars
  <2>3. /\ demo' = "pausing" /\ receiver' = Idling
        /\ UNCHANGED <<host, hubLink, connected, hubVars, fabricSees, lastMotion>>
    BY <1>a, <1>4 DEF StartDemo
  <2>4. LinkTypes' BY <1>a, <2>2, <2>3, LinkKeeps
  <2>5. HostInv'
    <3>1. HostTypes'
      BY <1>a, <2>3 DEF HostInv, HostTypes, Receivers, Idling, Underway, Motions
    <3>2. ReceiverShape'
      BY <1>a, <2>3 DEF HostInv, HostTypes, Receivers, ReceiverShape, Idling, Underway, Motions
    <3>3. DemoStopped' BY <1>a, <2>3 DEF HostInv, DemoStopped, ReceiverShape, Underway, Motions
    <3> QED BY <3>1, <3>2, <3>3 DEF HostInv
  <2>6. HubInv' BY <1>a, <2>3, HubKeeps
  <2> QED BY <2>2, <2>4, <2>5, <2>6 DEF LegoInv
<1>5. ASSUME NEW port \in Ports \cup {"ALL"}, StartCommand(port) PROVE LegoInv'
  <2>1. receiver.next \in Motions \ {"demo"}
    BY <1>a, <1>5 DEF StartCommand, HostInv, ReceiverShape, Underway
  <2>2. LinesInv' /\ (UNCHANGED connected \/ connected' = FALSE)
    <3>1. CASE connected
      <4> DEFINE op == IF receiver.next = "part" THEN "halt" ELSE receiver.next
      <4>1. Executes("command", op, port) /\ UNCHANGED driving
        BY <1>5, <3>1 DEF StartCommand, hubVars
      <4>2. op \in FrameOps /\ (op = "run" => port \in Ports) /\ "command" \in Tasks
        BY <1>5, <2>1 DEF StartCommand, FrameOps, Motions, Tasks
      <4> HIDE DEF op
      <4> QED BY <1>a, <4>1, <4>2, ExecuteLines
    <3>2. CASE ~connected
      BY <1>b, <1>5, <3>2 DEF StartCommand, hubVars
    <3> QED BY <3>1, <3>2
  <2>3. /\ receiver.step = "starting" /\ lastMotion' \in {lastMotion, receiver.next}
        /\ \/ receiver' = [step |-> "executing", next |-> receiver.next]
           \/ receiver' = [step |-> "failed", next |-> receiver.next]
           \/ receiver' = Idling
        /\ UNCHANGED <<host, hubLink, demo, hubVars, fabricSees>>
    BY <1>a, <1>5 DEF StartCommand, Rejected, HostInv, HostTypes, Receivers
  <2>4. LinkTypes' BY <1>a, <2>2, <2>3, LinkKeeps
  <2>5. HostInv'
    <3>1. HostTypes'
      BY <1>a, <2>3, <2>1 DEF HostInv, HostTypes, Receivers, Idling, Underway, Motions
    <3>2. ReceiverShape'
      BY <1>a, <2>3, <2>1
      DEF HostInv, HostTypes, Receivers, ReceiverShape, Idling, Underway, Motions
    <3>3. DemoStopped'
      BY <1>a, <2>3, <2>1 DEF HostInv, DemoStopped, ReceiverShape, Underway, Motions
    <3> QED BY <3>1, <3>2, <3>3 DEF HostInv
  <2>6. HubInv' BY <1>a, <2>3, HubKeeps
  <2> QED BY <2>2, <2>4, <2>5, <2>6 DEF LegoInv
<1>6. CASE CommandSucceeds
  <2>2. LinesInv' BY <1>c, <1>6 DEF CommandSucceeds, Succeeds, GetsReply, Reads, Tasks, hubVars
  <2>3. /\ receiver' = Idling
        /\ UNCHANGED <<host, hubLink, connected, demo, hubVars, fabricSees, lastMotion>>
    BY <1>a, <1>6 DEF CommandSucceeds
  <2>4. LinkTypes' BY <1>a, <2>2, <2>3, LinkKeeps
  <2>5. HostInv'
    <3>1. HostTypes'
      BY <1>a, <2>3 DEF HostInv, HostTypes, Receivers, Idling, Underway, Motions
    <3>2. ReceiverShape'
      BY <1>a, <2>3 DEF HostInv, HostTypes, Receivers, ReceiverShape, Idling, Underway, Motions
    <3>3. DemoStopped' BY <1>a, <2>3 DEF HostInv, DemoStopped, ReceiverShape, Underway, Motions
    <3> QED BY <3>1, <3>2, <3>3 DEF HostInv
  <2>6. HubInv' BY <1>a, <2>3, HubKeeps
  <2> QED BY <2>2, <2>4, <2>5, <2>6 DEF LegoInv
<1>7. CASE CommandFails
  <2>2. LinesInv'
    BY <1>c, <1>7 DEF CommandFails, Fails, TimesOut, GetsReply, Reads, Tasks, hubVars
  <2>3. /\ UNCHANGED connected \/ connected' = FALSE
        /\ receiver.step = "executing"
        /\ receiver' = [step |-> "failed", next |-> receiver.next] \/ receiver' = Idling
        /\ UNCHANGED <<host, hubLink, demo, hubVars, fabricSees, lastMotion>>
    BY <1>a, <1>7 DEF CommandFails, Fails, Rejected, HostInv, HostTypes, Receivers
  <2>4. LinkTypes' BY <1>a, <2>2, <2>3, LinkKeeps
  <2>5. HostInv'
    <3>1. HostTypes'
      BY <1>a, <2>3 DEF HostInv, HostTypes, Receivers, Idling, Underway, Motions
    <3>2. ReceiverShape'
      BY <1>a, <2>3 DEF HostInv, HostTypes, Receivers, ReceiverShape, Idling, Underway, Motions
    <3>3. DemoStopped' BY <1>a, <2>3 DEF HostInv, DemoStopped, ReceiverShape, Underway, Motions
    <3> QED BY <3>1, <3>2, <3>3 DEF HostInv
  <2>6. HubInv' BY <1>a, <2>3, HubKeeps
  <2> QED BY <2>2, <2>4, <2>5, <2>6 DEF LegoInv
<1>8. CASE FailureStops
  <2>1. SendBestEffort("stop") /\ UNCHANGED <<waiting, driving>>
    BY <1>8 DEF FailureStops, hubVars
  <2>2. LinesInv' /\ (UNCHANGED connected \/ connected' = FALSE)
    BY <1>a, <2>1, BestEffortLines DEF FrameOps
  <2>3. /\ lastMotion' = IF hubLink THEN "stop" ELSE lastMotion
        /\ receiver' = Idling
        /\ UNCHANGED <<host, hubLink, demo, hubVars, fabricSees>>
    BY <1>a, <1>8 DEF FailureStops
  <2>4. LinkTypes' BY <1>a, <2>2, <2>3, LinkKeeps
  <2>5. HostInv'
    <3>1. HostTypes'
      BY <1>a, <2>3 DEF HostInv, HostTypes, Receivers, Idling, Underway, Motions
    <3>2. ReceiverShape'
      BY <1>a, <2>3 DEF HostInv, HostTypes, Receivers, ReceiverShape, Idling, Underway, Motions
    <3>3. DemoStopped' BY <1>a, <2>3 DEF HostInv, DemoStopped, ReceiverShape, Underway, Motions
    <3> QED BY <3>1, <3>2, <3>3 DEF HostInv
  <2>6. HubInv' BY <1>a, <2>3, HubKeeps
  <2> QED BY <2>2, <2>4, <2>5, <2>6 DEF LegoInv
<1>9. CASE RuntimeStops
  <2>1. SendBestEffort("stop") /\ UNCHANGED <<waiting, driving>>
    BY <1>9 DEF RuntimeStops, hubVars
  <2>2. LinesInv' /\ (UNCHANGED connected \/ connected' = FALSE)
    BY <1>a, <2>1, BestEffortLines DEF FrameOps
  <2>3. /\ lastMotion' = IF hubLink THEN "stop" ELSE lastMotion
        /\ UNCHANGED <<host, hubLink, receiver, demo, hubVars, fabricSees>>
    BY <1>a, <1>9 DEF RuntimeStops
  <2>4. LinkTypes' BY <1>a, <2>2, <2>3, LinkKeeps
  <2>5. HostInv'
    <3>1. HostTypes'
      BY <1>a, <2>3 DEF HostInv, HostTypes, Receivers, Idling, Underway, Motions
    <3>2. ReceiverShape'
      BY <1>a, <2>3 DEF HostInv, HostTypes, Receivers, ReceiverShape, Idling, Underway, Motions
    <3>3. DemoStopped' BY <1>a, <2>3 DEF HostInv, DemoStopped, ReceiverShape, Underway, Motions
    <3> QED BY <3>1, <3>2, <3>3 DEF HostInv
  <2>6. HubInv' BY <1>a, <2>3, HubKeeps
  <2> QED BY <2>2, <2>4, <2>5, <2>6 DEF LegoInv
<1>10. CASE DemoPulse
  <2>1. Executes("demo", "drive", "ALL") /\ UNCHANGED driving BY <1>10 DEF DemoPulse, hubVars
  <2>2. LinesInv' /\ (UNCHANGED connected \/ connected' = FALSE)
    BY <1>a, <2>1, ExecuteLines DEF FrameOps, Tasks
  <2>3. /\ demo = "pausing" /\ demo' \in {"pulsing", "ending"}
        /\ lastMotion' \in {"demo", lastMotion}
        /\ UNCHANGED <<host, hubLink, receiver, hubVars, fabricSees>>
    BY <1>a, <1>10 DEF DemoPulse
  <2>4. LinkTypes' BY <1>a, <2>2, <2>3, LinkKeeps
  <2>5. HostInv'
    <3>1. HostTypes'
      BY <1>a, <2>3 DEF HostInv, HostTypes, Receivers, Idling, Underway, Motions
    <3>2. ReceiverShape'
      BY <1>a, <2>3 DEF HostInv, HostTypes, Receivers, ReceiverShape, Idling, Underway, Motions
    <3>3. DemoStopped' BY <1>a, <2>3 DEF HostInv, DemoStopped, ReceiverShape, Underway, Motions
    <3> QED BY <3>1, <3>2, <3>3 DEF HostInv
  <2>6. HubInv' BY <1>a, <2>3, HubKeeps
  <2> QED BY <2>2, <2>4, <2>5, <2>6 DEF LegoInv
<1>11. CASE DemoGoesOn
  <2>2. LinesInv'
    BY <1>c, <1>11 DEF DemoGoesOn, Succeeds, Fails, TimesOut, GetsReply, Reads, Tasks, hubVars
  <2>3. /\ UNCHANGED connected \/ connected' = FALSE
        /\ demo = "pulsing" /\ demo' \in {"pausing", "ending"}
        /\ UNCHANGED <<host, hubLink, receiver, hubVars, fabricSees, lastMotion>>
    BY <1>a, <1>11 DEF DemoGoesOn, Fails
  <2>4. LinkTypes' BY <1>a, <2>2, <2>3, LinkKeeps
  <2>5. HostInv'
    <3>1. HostTypes'
      BY <1>a, <2>3 DEF HostInv, HostTypes, Receivers, Idling, Underway, Motions
    <3>2. ReceiverShape'
      BY <1>a, <2>3 DEF HostInv, HostTypes, Receivers, ReceiverShape, Idling, Underway, Motions
    <3>3. DemoStopped' BY <1>a, <2>3 DEF HostInv, DemoStopped, ReceiverShape, Underway, Motions
    <3> QED BY <3>1, <3>2, <3>3 DEF HostInv
  <2>6. HubInv' BY <1>a, <2>3, HubKeeps
  <2> QED BY <2>2, <2>4, <2>5, <2>6 DEF LegoInv
<1>12. CASE DemoEnds
  <2>2. LinesInv' BY <1>b, <1>12 DEF DemoEnds, hubVars
  <2>3. /\ demo = "pausing" /\ demo' = "ending"
        /\ UNCHANGED <<host, hubLink, connected, receiver, hubVars, fabricSees, lastMotion>>
    BY <1>a, <1>12 DEF DemoEnds
  <2>4. LinkTypes' BY <1>a, <2>2, <2>3, LinkKeeps
  <2>5. HostInv'
    <3>1. HostTypes'
      BY <1>a, <2>3 DEF HostInv, HostTypes, Receivers, Idling, Underway, Motions
    <3>2. ReceiverShape'
      BY <1>a, <2>3 DEF HostInv, HostTypes, Receivers, ReceiverShape, Idling, Underway, Motions
    <3>3. DemoStopped' BY <1>a, <2>3 DEF HostInv, DemoStopped, ReceiverShape, Underway, Motions
    <3> QED BY <3>1, <3>2, <3>3 DEF HostInv
  <2>6. HubInv' BY <1>a, <2>3, HubKeeps
  <2> QED BY <2>2, <2>4, <2>5, <2>6 DEF LegoInv
<1>13. CASE DemoStops
  <2>1. SendBestEffort("stop") /\ UNCHANGED <<waiting, driving>> BY <1>13 DEF DemoStops, hubVars
  <2>2. LinesInv' /\ (UNCHANGED connected \/ connected' = FALSE)
    BY <1>a, <2>1, BestEffortLines DEF FrameOps
  <2>3. /\ lastMotion' = IF hubLink THEN "stop" ELSE lastMotion
        /\ demo' = "none"
        /\ UNCHANGED <<host, hubLink, receiver, hubVars, fabricSees>>
    BY <1>a, <1>13 DEF DemoStops
  <2>4. LinkTypes' BY <1>a, <2>2, <2>3, LinkKeeps
  <2>5. HostInv'
    <3>1. HostTypes'
      BY <1>a, <2>3 DEF HostInv, HostTypes, Receivers, Idling, Underway, Motions
    <3>2. ReceiverShape'
      BY <1>a, <2>3 DEF HostInv, HostTypes, Receivers, ReceiverShape, Idling, Underway, Motions
    <3>3. DemoStopped' BY <1>a, <2>3 DEF HostInv, DemoStopped, ReceiverShape, Underway, Motions
    <3> QED BY <3>1, <3>2, <3>3 DEF HostInv
  <2>6. HubInv' BY <1>a, <2>3, HubKeeps
  <2> QED BY <2>2, <2>4, <2>5, <2>6 DEF LegoInv
<1>14. CASE TickDrains
  <2>2. LinesInv' BY <1>c, <1>14 DEF TickDrains, Tasks, hubVars
  <2>3. /\ connected' = hubLink
        /\ UNCHANGED <<host, hubLink, receiver, demo, hubVars, fabricSees, lastMotion>>
    BY <1>a, <1>14 DEF TickDrains
  <2>4. LinkTypes' BY <1>a, <2>3 DEF LinkTypes
  <2>5. HostInv' BY <1>a, <2>3, HostKeeps DEF HostInv, HostTypes
  <2>6. HubInv' BY <1>a, <2>3, HubKeeps
  <2> QED BY <2>2, <2>4, <2>5, <2>6 DEF LegoInv
<1>15. CASE TickBeats
  <2>1. SendBestEffort("beat") /\ UNCHANGED <<waiting, driving>> BY <1>15 DEF TickBeats, hubVars
  <2>2. LinesInv' /\ (UNCHANGED connected \/ connected' = FALSE)
    BY <1>a, <2>1, BestEffortLines DEF FrameOps
  <2>3. UNCHANGED <<host, hubLink, receiver, demo, hubVars, fabricSees, lastMotion>>
    BY <1>a, <1>15 DEF TickBeats
  <2>4. LinkTypes' BY <1>a, <2>2, <2>3, LinkKeeps
  <2>5. HostInv' BY <1>a, <2>3, HostKeeps DEF HostInv, HostTypes
  <2>6. HubInv' BY <1>a, <2>3, HubKeeps
  <2> QED BY <2>2, <2>4, <2>5, <2>6 DEF LegoInv
<1>16. CASE Poll
  <2>1. "poll" \in Tasks BY DEF Tasks
  <2>2. LinesInv' /\ (UNCHANGED connected \/ connected' = FALSE)
    <3>1. CASE Executes("poll", "read", "ALL")
      BY <1>a, <1>16, <2>1, <3>1, ExecuteLines DEF Poll, FrameOps, hubVars
    <3>2. CASE ((Succeeds("poll") /\ UNCHANGED connected) \/ Fails("poll"))
                                  /\ UNCHANGED <<toHub, executed>>
      <4>1. LinesInv'
        BY <1>c, <1>16, <2>1, <3>2
        DEF Poll, Succeeds, Fails, TimesOut, GetsReply, Reads, hubVars
      <4> QED BY <3>2, <4>1 DEF Fails
    <3> QED BY <1>16, <3>1, <3>2 DEF Poll
  <2>3. UNCHANGED <<host, hubLink, receiver, demo, hubVars, fabricSees, lastMotion>>
    BY <1>a, <1>16 DEF Poll
  <2>4. LinkTypes' BY <1>a, <2>2, <2>3, LinkKeeps
  <2>5. HostInv' BY <1>a, <2>3, HostKeeps DEF HostInv, HostTypes
  <2>6. HubInv' BY <1>a, <2>3, HubKeeps
  <2> QED BY <2>2, <2>4, <2>5, <2>6 DEF LegoInv
<1>17. CASE ReportHealth
  <2>2. LinesInv' BY <1>b, <1>17 DEF ReportHealth, hubVars
  <2>3. /\ fabricSees' \in {"connected", "degraded"}
        /\ UNCHANGED <<host, hubLink, connected, receiver, demo, hubVars, lastMotion>>
    BY <1>a, <1>17 DEF ReportHealth
  <2>4. LinkTypes' BY <1>a, <2>2, <2>3, LinkKeeps
  <2>5. HostInv' BY <1>a, <2>3, HostKeeps
  <2>6. HubInv' BY <1>a, <2>3, HubKeeps
  <2> QED BY <2>2, <2>4, <2>5, <2>6 DEF LegoInv
<1>18. ASSUME NEW t \in Tasks, ReadsOthers(t) PROVE LegoInv'
  <2>2. LinesInv' BY <1>c, <1>18 DEF ReadsOthers, Reads, hubVars
  <2>3. UNCHANGED <<host, hubLink, connected, receiver, demo, hubVars, fabricSees, lastMotion>>
    BY <1>a, <1>18 DEF ReadsOthers
  <2>4. LinkTypes' BY <1>a, <2>2, <2>3, LinkKeeps
  <2>5. HostInv' BY <1>a, <2>3, HostKeeps DEF HostInv, HostTypes
  <2>6. HubInv' BY <1>a, <2>3, HubKeeps
  <2> QED BY <2>2, <2>4, <2>5, <2>6 DEF LegoInv
<1>19. CASE HubHandles
  <2>1. /\ toHub \in Seq(Frames) /\ toHub # <<>> /\ Head(toHub) \in Frames
        /\ Tail(toHub) \in Seq(Frames)
        /\ Len(Tail(toHub)) <= MaxInFlight /\ Len(toHub) <= MaxInFlight
    BY <1>a, <1>19, HeadTailProperties, EmptySeq, LegoAssumption
    DEF HubHandles, LinesInv, FramesOK, DrivesFirst
  <2> DEFINE f == Head(toHub)
  <2>0. f.id \in FrameIds /\ f.op \in FrameOps /\ (f.op = "run" => f.port \in Ports)
    BY <2>1 DEF Frames
  <2>2. LinesInv'
    <3>1. CASE f.op = "drive"
      BY <1>a, <1>19, <2>0, <3>1 DEF HubHandles, LinesInv, FramesOK, DrivesFirst, AcksTell
    <3>2. CASE f.op # "drive"
      <4>1. /\ Emit(Ack(f)) /\ toHub' = Tail(toHub) /\ executed' = executed \cup {f.id}
            /\ ~driving' /\ UNCHANGED waiting
        BY <1>19, <3>2 DEF HubHandles
      <4>2. Ack(f) \in Lines /\ Ack(f).id = f.id BY <2>0 DEF Ack, Lines
      <4>3. executed' \subseteq FrameIds BY <1>a, <2>0, <4>1 DEF LinesInv, FramesOK
      <4> QED BY <1>a, <2>1, <4>1, <4>2, <4>3, EmitLines DEF DrivesFirst
    <3> QED BY <3>1, <3>2
  <2>3. /\ running' \subseteq Ports /\ driving' \in BOOLEAN /\ silent' = FALSE
        /\ watched' \in BOOLEAN /\ partStopped' \in BOOLEAN
        /\ (running' # {} /\ ~partStopped') => watched'
        /\ UNCHANGED <<host, hubLink, connected, receiver, demo, fabricSees, lastMotion>>
    <3>1. CASE f.op \in {"drive", "run"}
      BY <1>a, <1>19, <2>0, <3>1 DEF HubHandles, HubInv, HubTypes, WatchedUnlessPartStopped
    <3>2. CASE f.op \in {"stop", "halt"}
      BY <1>a, <1>19, <2>0, <3>2
      DEF HubHandles, Stopped, HubInv, HubTypes, WatchedUnlessPartStopped
    <3>3. CASE f.op \in {"beat", "read"}
      BY <1>a, <1>19, <2>0, <3>3 DEF HubHandles, HubInv, HubTypes, WatchedUnlessPartStopped
    <3> QED BY <2>0, <3>1, <3>2, <3>3 DEF FrameOps
  <2>4. LinkTypes' BY <1>a, <2>2, <2>3, LinkKeeps
  <2>5. HostInv' BY <1>a, <2>3, HostKeeps DEF HostInv, HostTypes
  <2>6. HubInv' BY <1>a, <2>3 DEF HubInv, HubTypes, WatchedUnlessPartStopped
  <2> QED BY <2>2, <2>4, <2>5, <2>6 DEF LegoInv
<1>20. CASE HubRefuses
  <2>1. /\ toHub \in Seq(Frames) /\ toHub # <<>> /\ Head(toHub) \in Frames
        /\ Tail(toHub) \in Seq(Frames)
        /\ Len(Tail(toHub)) <= MaxInFlight /\ Len(toHub) <= MaxInFlight
    BY <1>a, <1>20, HeadTailProperties, EmptySeq, LegoAssumption
    DEF HubRefuses, LinesInv, FramesOK, DrivesFirst
  <2> DEFINE f == Head(toHub)
  <2>2. LinesInv'
    <3>1. /\ Emit([op |-> "error", id |-> f.id]) /\ toHub' = Tail(toHub) /\ executed' = executed
          /\ ~driving' /\ UNCHANGED waiting
      BY <1>20 DEF HubRefuses
    <3>2. [op |-> "error", id |-> f.id] \in Lines BY <2>1 DEF Frames, Lines
    <3> QED BY <1>a, <2>1, <3>1, <3>2, EmitLines DEF DrivesFirst, LinesInv, FramesOK
  <2>3. /\ silent' = FALSE
        /\ UNCHANGED <<host, hubLink, connected, receiver, demo, running, watched, driving,
                       partStopped,
                       fabricSees, lastMotion>>
    BY <1>a, <1>20 DEF HubRefuses
  <2>4. LinkTypes' BY <1>a, <2>2, <2>3, LinkKeeps
  <2>5. HostInv' BY <1>a, <2>3, HostKeeps DEF HostInv, HostTypes
  <2>6. HubInv' BY <1>a, <2>3 DEF HubInv, HubTypes, WatchedUnlessPartStopped
  <2> QED BY <2>2, <2>4, <2>5, <2>6 DEF LegoInv
<1>21. CASE DriveEnds
  <2>1. /\ toHub \in Seq(Frames) /\ toHub # <<>> /\ Head(toHub) \in Frames
        /\ Tail(toHub) \in Seq(Frames)
        /\ Len(Tail(toHub)) <= MaxInFlight /\ Len(toHub) <= MaxInFlight
    BY <1>a, <1>21, HeadTailProperties, EmptySeq, LegoAssumption
    DEF DriveEnds, LinesInv, FramesOK, DrivesFirst
  <2>2. LinesInv'
    <3>1. /\ Emit(Ack(Head(toHub))) /\ toHub' = Tail(toHub) /\ executed' = executed
          /\ ~driving' /\ UNCHANGED waiting /\ Head(toHub).id \in executed
      BY <1>a, <1>21, <2>1 DEF DriveEnds, LinesInv, DrivesFirst
    <3>2. Ack(Head(toHub)) \in Lines /\ Ack(Head(toHub)).id = Head(toHub).id
      BY <2>1 DEF Frames, Lines, Ack
    <3> QED BY <1>a, <2>1, <3>1, <3>2, EmitLines DEF DrivesFirst, LinesInv, FramesOK
  <2>3. /\ running' = {} /\ driving' = FALSE
        /\ UNCHANGED <<host, hubLink, connected, receiver, demo, watched, silent, partStopped,
                       fabricSees, lastMotion>>
    BY <1>a, <1>21 DEF DriveEnds
  <2>4. LinkTypes' BY <1>a, <2>2, <2>3, LinkKeeps
  <2>5. HostInv' BY <1>a, <2>3, HostKeeps DEF HostInv, HostTypes
  <2>6. HubInv' BY <1>a, <2>3 DEF HubInv, HubTypes, WatchedUnlessPartStopped
  <2> QED BY <2>2, <2>4, <2>5, <2>6 DEF LegoInv
<1>22. CASE GoesQuiet
  <2>2. LinesInv' BY <1>b, <1>22 DEF GoesQuiet
  <2>3. /\ silent' = TRUE
        /\ UNCHANGED <<host, hubLink, connected, receiver, demo, running, watched, driving,
                       partStopped,
                       fabricSees, lastMotion>>
    BY <1>a, <1>22 DEF GoesQuiet
  <2>4. LinkTypes' BY <1>a, <2>2, <2>3, LinkKeeps
  <2>5. HostInv' BY <1>a, <2>3, HostKeeps DEF HostInv, HostTypes
  <2>6. HubInv' BY <1>a, <2>3 DEF HubInv, HubTypes, WatchedUnlessPartStopped
  <2> QED BY <2>2, <2>4, <2>5, <2>6 DEF LegoInv
<1>23. CASE HubLinkBreaks
  <2>1. driving => <<Head(toHub)>> \in Seq(Frames) /\ Len(<<Head(toHub)>>) <= MaxInFlight
    <3> SUFFICES ASSUME driving
                 PROVE <<Head(toHub)>> \in Seq(Frames) /\ Len(<<Head(toHub)>>) <= MaxInFlight
      OBVIOUS
    <3>1. toHub \in Seq(Frames) /\ toHub # <<>> /\ Len(toHub) <= MaxInFlight
      BY <1>a DEF LinesInv, FramesOK, DrivesFirst
    <3>2. Len(toHub) \in Nat \ {0} /\ Head(toHub) \in Frames BY <3>1, EmptySeq, HeadTailProperties
    <3> HIDE DEF lineVars
    <3> QED BY <3>1, <3>2, LegoAssumption
  <2>2. LinesInv'
    BY <1>a, <1>23, <2>1, EmptySeq, LegoAssumption
    DEF HubLinkBreaks, LinesInv, FramesOK, DrivesFirst, AcksTell, hubVars
  <2>3. /\ hubLink' = FALSE
        /\ UNCHANGED <<host, connected, receiver, demo, hubVars, fabricSees, lastMotion>>
    BY <1>a, <1>23 DEF HubLinkBreaks
  <2>4. LinkTypes' BY <1>a, <2>2, <2>3, LinkKeeps
  <2>5. HostInv' BY <1>a, <2>3, HostKeeps DEF HostInv, HostTypes
  <2>6. HubInv' BY <1>a, <2>3, HubKeeps
  <2> QED BY <2>2, <2>4, <2>5, <2>6 DEF LegoInv
<1>24. CASE Reconnect
  <2>2. LinesInv'
    BY <1>a, <1>24, EmptySeq, LegoAssumption
    DEF Reconnect, LinesInv, FramesOK, DrivesFirst, AcksTell
  <2>3. /\ hubLink' = TRUE /\ connected' = TRUE /\ lastMotion' = "stop" /\ silent' = FALSE
        /\ UNCHANGED <<host, receiver, demo, running, watched, driving, partStopped, fabricSees>>
    BY <1>a, <1>24 DEF Reconnect
  <2>4. LinkTypes' BY <2>3 DEF LinkTypes
  <2>5. HostInv'
    <3>1. HostTypes'
      BY <1>a, <2>3 DEF HostInv, HostTypes, Receivers, Idling, Underway, Motions
    <3>2. ReceiverShape'
      BY <1>a, <2>3 DEF HostInv, HostTypes, Receivers, ReceiverShape, Idling, Underway, Motions
    <3>3. DemoStopped' BY <1>a, <2>3 DEF HostInv, DemoStopped, ReceiverShape, Underway, Motions
    <3> QED BY <3>1, <3>2, <3>3 DEF HostInv
  <2>6. HubInv' BY <1>a, <2>3 DEF HubInv, HubTypes, WatchedUnlessPartStopped
  <2> QED BY <2>2, <2>4, <2>5, <2>6 DEF LegoInv
<1>25. ASSUME NEW p \in Ports, MotorEnds(p) PROVE LegoInv'
  <2>2. LinesInv' BY <1>b, <1>25 DEF MotorEnds
  <2>3. /\ running' \subseteq running
        /\ UNCHANGED <<host, hubLink, connected, receiver, demo, watched, driving, silent,
                       partStopped,
                       fabricSees, lastMotion>>
    BY <1>a, <1>25 DEF MotorEnds
  <2>4. LinkTypes' BY <1>a, <2>2, <2>3, LinkKeeps
  <2>5. HostInv' BY <1>a, <2>3, HostKeeps DEF HostInv, HostTypes
  <2>6. HubInv' BY <1>a, <2>3 DEF HubInv, HubTypes, WatchedUnlessPartStopped
  <2> QED BY <2>2, <2>4, <2>5, <2>6 DEF LegoInv
<1>26. ASSUME NEW button \in BOOLEAN, HubPolls(button) PROVE LegoInv'
  <2>1. \E line \in Lines : line.op # "ack" /\ Emit(line)
    <3>1. [op |-> IF button THEN "button" ELSE "watchdog", id |-> 0] \in Lines BY DEF Lines
    <3> QED BY <1>26, <3>1 DEF HubPolls
  <2>2. LinesInv'
    <3>1. PICK line \in Lines : line.op # "ack" /\ Emit(line) BY <2>1
    <3>2. UNCHANGED <<toHub, executed, waiting, driving>> BY <1>26 DEF HubPolls
    <3> QED BY <1>a, <3>1, <3>2, EmitLines DEF LinesInv, FramesOK, DrivesFirst
  <2>3. /\ running' = {} /\ watched' = FALSE /\ partStopped' = FALSE
        /\ UNCHANGED <<host, hubLink, connected, receiver, demo, driving, silent, fabricSees,
                       lastMotion>>
    BY <1>a, <1>26 DEF HubPolls, Stopped
  <2>4. LinkTypes' BY <1>a, <2>2, <2>3, LinkKeeps
  <2>5. HostInv' BY <1>a, <2>3, HostKeeps DEF HostInv, HostTypes
  <2>6. HubInv' BY <1>a, <2>3 DEF HubInv, HubTypes, WatchedUnlessPartStopped
  <2> QED BY <2>2, <2>4, <2>5, <2>6 DEF LegoInv
<1>27. CASE UNCHANGED legoVars
  <2>2. LinesInv' BY <1>b, <1>27 DEF legoVars
  <2>3. UNCHANGED <<host, hubLink, connected, receiver, demo, hubVars, fabricSees, lastMotion>>
    BY <1>a, <1>27 DEF legoVars, hubVars
  <2>4. LinkTypes' BY <1>a, <2>2, <2>3, LinkKeeps
  <2>5. HostInv' BY <1>a, <2>3, HostKeeps DEF HostInv, HostTypes
  <2>6. HubInv' BY <1>a, <2>3, HubKeeps
  <2> QED BY <2>2, <2>4, <2>5, <2>6 DEF LegoInv
<1> QED
  BY <1>1, <1>2, <1>3, <1>4, <1>5, <1>6, <1>7, <1>8, <1>9, <1>10, <1>11, <1>12, <1>13, <1>14,
     <1>15, <1>16, <1>17, <1>18, <1>19, <1>20, <1>21, <1>22, <1>23, <1>24, <1>25, <1>26, <1>27
  DEF LegoNext

LEMMA LegoInvariant == LegoSpec => []LegoInv
<1> QED BY LegoInvInit, LegoInvStep, PTL DEF LegoSpec

LEMMA LegoInvTypes == LegoInv => LegoTypeOK
<1> SUFFICES ASSUME LegoInv PROVE LegoTypeOK
  OBVIOUS
<1> DEFINE Wide == [op : {"run", "halt", "drive", "stop", "beat", "read"},
                    port : Ports \cup {"ALL"}, id : FrameIds]
<1>1. toHub \in Seq(Frames) BY DEF LegoInv, LinesInv, FramesOK
<1>2. Frames \subseteq Wide BY DEF Frames, FrameOps
<1> HIDE DEF Wide
<1>3. toHub \in Seq(Wide) BY <1>1, <1>2
<1> QED
  BY <1>3
  DEF Wide, LegoInv, LinesInv, FramesOK, LinkTypes, HostInv, HostTypes, HubInv, HubTypes,
              Receivers, Underway, Motions, LegoTypeOK

(* A demonstration that is over has a stop behind its last pulse, whatever  *)
(* ended it, and a motor turns unwatched only when another was stopped by   *)
(* itself (bounded_demo.py, the adapter's _send_best_effort, and            *)
(* motors_running of the hub's firmware).                                   *)
THEOREM LegoSafety ==
    LegoSpec => [](LegoTypeOK /\ DemoEndsWithStop /\ WatchedUnlessPartStopped)
<1>1. LegoInv => DemoEndsWithStop
  BY DEF LegoInv, HostInv, ReceiverShape, DemoStopped, DemoEndsWithStop, Underway
<1>2. LegoInv => WatchedUnlessPartStopped BY DEF LegoInv, HubInv
<1> QED BY <1>1, <1>2, LegoInvTypes, LegoInvariant, PTL

(* A command of the bridge is reported completed only when the hub executed *)
(* that very frame (_await_frame takes the answer with its own number).     *)
THEOREM CompletedWasExecutedHolds == LegoSpec => CompletedWasExecuted
<1>1. ASSUME LegoInv, LegoNext, receiver.step = "executing", receiver' = Idling, host = "bridge"
      PROVE  waiting["command"] \in executed
  <2>1. CommandSucceeds \/ CommandFails
    <3>1. receiver # receiver' /\ receiver.step = "executing" BY <1>1 DEF Idling
    <3>2. CASE \/ RuntimeStops \/ DemoPulse \/ DemoGoesOn \/ DemoEnds \/ DemoStops
               \/ TickDrains \/ TickBeats \/ Poll \/ ReportHealth
               \/ (\E t \in Tasks : ReadsOthers(t)) \/ CancelDemo
      BY <3>1, <3>2 DEF RuntimeStops, DemoPulse, DemoGoesOn, DemoEnds, DemoStops, TickDrains,
         TickBeats, Poll, ReportHealth, ReadsOthers, CancelDemo
    <3>3. CASE \/ HubHandles \/ HubRefuses \/ DriveEnds \/ GoesQuiet \/ HubLinkBreaks \/ Reconnect
               \/ (\E p \in Ports : MotorEnds(p)) \/ (\E button \in BOOLEAN : HubPolls(button))
      BY <3>1, <3>3 DEF HubHandles, HubRefuses, DriveEnds, GoesQuiet, HubLinkBreaks, Reconnect,
         MotorEnds, HubPolls
    <3>4. CASE \/ (\E next \in Commands : ReceiveCommand(next)) \/ CancelEnds \/ StartDemo
               \/ FailureStops \/ (\E port \in Ports \cup {"ALL"} : StartCommand(port))
      BY <3>1, <3>4
      DEF ReceiveCommand, CancelEnds, StartDemo, FailureStops, StartCommand, Idling
    <3> QED BY <1>1, <3>2, <3>3, <3>4 DEF LegoNext
  <2>2. ~CommandFails
    <3>1. receiver \in Receivers BY <1>1 DEF LegoInv, HostInv, HostTypes
    <3>2. Rejected.step = "failed" BY <1>1, <3>1 DEF Rejected, Receivers
    <3> QED BY <1>1, <3>2 DEF CommandFails, Idling
  <2>3. PICK l \in Matching("command") : l.op = "ack"
    BY <2>1, <2>2 DEF CommandSucceeds, Succeeds
  <2>4. l \in ToSet(toHost) /\ l.id = waiting["command"] BY <2>3 DEF Matching, OwnAnswers
  <2>5. toHost \in Seq(Lines) /\ AcksTell BY <1>1 DEF LegoInv, LinesInv, FramesOK
  <2>6. PICK i \in 1..Len(toHost) : toHost[i] = l BY <2>4, <2>5, LenProperties DEF ToSet
  <2> QED BY <2>3, <2>4, <2>5, <2>6 DEF AcksTell
<1>2. LegoInv /\ [LegoNext]_legoVars
        => [receiver.step = "executing" /\ receiver' = Idling /\ host = "bridge"
             => waiting["command"] \in executed]_legoVars
  BY <1>1
<1> QED BY <1>2, LegoInvariant, PTL DEF LegoSpec, CompletedWasExecuted

-----------------------------------------------------------------------------
(* The headset. *)

Frame == HeadEvents \cup {"ready", "fatal"}

HeadBits ==
    /\ headOn \in BOOLEAN /\ linked \in BOOLEAN /\ believed \in BOOLEAN
    /\ headError \in BOOLEAN /\ activated \in BOOLEAN /\ shutdown \in BOOLEAN

HeadTypes ==
    /\ source \in {"api", "worker"} /\ blinks \in 0..MaxBlinks /\ lastBlink \in 0..MaxBlinks
    /\ worker \in {"none", "connecting", "serving", "gone"}
    /\ head \in {"down", "starting", "up", "closing", "waiting"}
    /\ pending \in Seq(HeadEvents) /\ pipe \in Seq(Frame)
    /\ written \in Seq(HeadEvents) /\ handled \in Seq(HeadEvents)

\* A bridge that is down or polls the service has no worker that works.
WorkersEnd ==
    /\ source = "api" => worker = "none"
    /\ head = "down" => worker \in {"none", "gone"}

\* What the counter shows above what was reported is a blink since then.
CountIsOfBlinks == source = "api" /\ head = "up" /\ blinks > lastBlink => fresh

\* Of the events w the first n were read and the frames q tell the others, in
\* order; "ready" is the frame at r, if r is not 0, and "fatal" may be the last.
Ended(q) == q # <<>> /\ q[Len(q)] = "fatal"
Readies(r, i) == IF r # 0 /\ i > r THEN 1 ELSE 0

FramesTell(n, q, w, r) ==
    /\ r \in 0..Len(q)
    /\ \A i \in 1..Len(q) :
          /\ q[i] = "ready" <=> i = r
          /\ q[i] = "fatal" => i = Len(q)
          /\ q[i] \in HeadEvents => q[i] = w[n + i - Readies(r, i)]
    /\ Len(w) = n + Len(q) - Readies(r, Len(q) + 1) - (IF Ended(q) THEN 1 ELSE 0)

\* The bridge took the first events of w, and the next ones came early.
ReadInOrder(h, p, w) ==
    /\ Len(h) + Len(p) <= Len(w)
    /\ \A i \in 1..Len(h) : h[i] = w[i]
    /\ \A i \in 1..Len(p) : p[i] = w[Len(h) + i]

InOrder ==
    source = "worker" /\ head \in {"starting", "up"}
      => /\ ReadInOrder(handled, pending, written)
         /\ \E r \in 0..Len(pipe) :
              /\ FramesTell(Len(handled) + Len(pending), pipe, written, r)
              /\ r # 0 => worker \in {"serving", "gone"} /\ head = "starting"
              /\ r = 0 /\ head = "starting" => worker # "serving"
         /\ Ended(pipe) => worker = "gone"
         /\ worker # "none" /\ (head = "up" => worker # "connecting")

\* After the last "off" the bridge does not believe in the headset.
LastWord ==
    /\ head = "starting" \/ (head = "up" /\ source = "api") => handled = <<>>
    /\ head = "up" /\ believed =>
          /\ \A i \in 1..Len(handled) :
                handled[i] = "off" => \E j \in 1..Len(handled) : j > i /\ handled[j] = "on"
          /\ source = "api" => linked

HeadInv == HeadBits /\ HeadTypes /\ WorkersEnd /\ CountIsOfBlinks /\ ~phantom /\ InOrder /\ LastWord

LEMMA ReadiesBit == \A r, i : Readies(r, i) \in {0, 1}
BY DEF Readies

\* The worker writes an event while it works.
LEMMA WrittenIsTold ==
    ASSUME NEW n \in Nat, NEW q \in Seq(Frame), NEW w \in Seq(HeadEvents), NEW r,
           NEW e \in HeadEvents, FramesTell(n, q, w, r), ~Ended(q)
    PROVE  FramesTell(n, Append(q, e), Append(w, e), r) /\ ~Ended(Append(q, e))
<1> DEFINE q1 == Append(q, e)
           w1 == Append(w, e)
<1>1. /\ Len(q) \in Nat /\ Len(w) \in Nat /\ r \in 0..Len(q)
      /\ Len(q1) = Len(q) + 1 /\ q1[Len(q) + 1] = e /\ \A i \in 1..Len(q) : q1[i] = q[i]
      /\ Len(w1) = Len(w) + 1 /\ w1[Len(w) + 1] = e /\ \A i \in 1..Len(w) : w1[i] = w[i]
  BY AppendProperties, LenProperties DEF Frame, FramesTell
<1>2. e # "ready" /\ e # "fatal" BY DEF HeadEvents
<1> HIDE DEF q1, w1
<1>3. ~Ended(q1) BY <1>1, <1>2 DEF Ended
<1>4. Len(w) = n + Len(q) - Readies(r, Len(q) + 1)
  <2>1. Len(w) = n + Len(q) - Readies(r, Len(q) + 1) - 0 BY DEF FramesTell
  <2> QED BY <1>1, <2>1, ReadiesBit
<1>5. Readies(r, Len(q) + 2) = Readies(r, Len(q) + 1) BY <1>1 DEF Readies
<1>6. Len(w1) = n + Len(q1) - Readies(r, Len(q1) + 1)
  <2>1. Len(q1) + 1 = Len(q) + 2 BY <1>1
  <2>2. Readies(r, Len(q1) + 1) = Readies(r, Len(q) + 1) BY <1>5, <2>1
  <2>3. Readies(r, Len(q) + 1) \in {0, 1} BY ReadiesBit
  <2> QED BY <1>1, <1>4, <2>2, <2>3
<1>7. ASSUME NEW i \in 1..Len(q1)
      PROVE  /\ q1[i] = "ready" <=> i = r
             /\ q1[i] = "fatal" => i = Len(q1)
             /\ q1[i] \in HeadEvents => q1[i] = w1[n + i - Readies(r, i)]
  <2>1. CASE i = Len(q) + 1
    <3>1. q1[i] = e /\ i # r BY <1>1, <2>1
    <3>2. n + i - Readies(r, i) = Len(w) + 1
      <4>1. Readies(r, i) = Readies(r, Len(q) + 1) BY <2>1
      <4>2. CASE Readies(r, i) = 0 BY <1>1, <1>4, <2>1, <4>1, <4>2
      <4>3. CASE Readies(r, i) = 1 BY <1>1, <1>4, <2>1, <4>1, <4>3
      <4> QED BY <4>2, <4>3, ReadiesBit
    <3> QED BY <1>1, <1>2, <3>1, <3>2
  <2>2. CASE i # Len(q) + 1
    <3>1. i \in 1..Len(q) /\ q1[i] = q[i] BY <1>1, <2>2
    <3>2. /\ q[i] = "ready" <=> i = r
          /\ q[i] = "fatal" => i = Len(q)
          /\ q[i] \in HeadEvents => q[i] = w[n + i - Readies(r, i)]
      BY <3>1 DEF FramesTell
    <3>3. q[i] # "fatal" BY <1>1, <3>1, <3>2 DEF Ended
    <3>4. q[i] \in HeadEvents => n + i - Readies(r, i) \in 1..Len(w)
      <4> SUFFICES ASSUME q[i] \in HeadEvents PROVE n + i - Readies(r, i) \in 1..Len(w)
        OBVIOUS
      <4>1. i # r BY <3>2 DEF HeadEvents
      <4>2. CASE r # 0 /\ i > r BY <1>1, <1>4, <3>1, <4>2 DEF Readies
      <4>3. CASE r = 0 BY <1>1, <1>4, <3>1, <4>3 DEF Readies
      <4>4. CASE r # 0 /\ i < r BY <1>1, <1>4, <3>1, <4>4 DEF Readies
      <4> QED BY <1>1, <3>1, <4>1, <4>2, <4>3, <4>4
    <3> QED BY <1>1, <3>1, <3>2, <3>3, <3>4
  <2> QED BY <2>1, <2>2
<1>8. Len(w1) = n + Len(q1) - Readies(r, Len(q1) + 1) - (IF Ended(q1) THEN 1 ELSE 0)
  BY <1>1, <1>3, <1>6, ReadiesBit
<1>9. r \in 0..Len(q1) BY <1>1
<1>10. FramesTell(n, q1, w1, r) BY <1>7, <1>8, <1>9 DEF FramesTell
<1> QED BY <1>3, <1>10 DEF q1, w1

\* The worker says that it is ready.
LEMMA ReadyIsTold ==
    ASSUME NEW n \in Nat, NEW q \in Seq(Frame), NEW w \in Seq(HeadEvents),
           FramesTell(n, q, w, 0), ~Ended(q)
    PROVE  FramesTell(n, Append(q, "ready"), w, Len(q) + 1) /\ ~Ended(Append(q, "ready"))
<1> DEFINE q1 == Append(q, "ready")
<1>1. /\ Len(q) \in Nat /\ Len(w) \in Nat
      /\ Len(q1) = Len(q) + 1 /\ q1[Len(q) + 1] = "ready" /\ \A i \in 1..Len(q) : q1[i] = q[i]
  BY AppendProperties, LenProperties DEF Frame
<1> HIDE DEF q1
<1>2. ~Ended(q1) BY <1>1 DEF Ended
<1>3. Len(w) = n + Len(q) BY <1>1 DEF FramesTell, Readies
<1>4. Len(w) = n + Len(q1) - Readies(Len(q) + 1, Len(q1) + 1) BY <1>1, <1>3 DEF Readies
<1>5. ASSUME NEW i \in 1..Len(q1)
      PROVE  /\ q1[i] = "ready" <=> i = Len(q) + 1
             /\ q1[i] = "fatal" => i = Len(q1)
             /\ q1[i] \in HeadEvents => q1[i] = w[n + i - Readies(Len(q) + 1, i)]
  <2>1. CASE i = Len(q) + 1 BY <1>1, <2>1 DEF HeadEvents
  <2>2. CASE i # Len(q) + 1
    <3>1. i \in 1..Len(q) /\ q1[i] = q[i] BY <1>1, <2>2
    <3>2. /\ q[i] = "ready" <=> i = 0
          /\ q[i] = "fatal" => i = Len(q)
          /\ q[i] \in HeadEvents => q[i] = w[n + i - Readies(0, i)]
      BY <3>1 DEF FramesTell
    <3>3. q[i] # "fatal" BY <1>1, <3>1, <3>2 DEF Ended
    <3>4. Readies(0, i) = Readies(Len(q) + 1, i) BY <1>1, <3>1 DEF Readies
    <3> QED BY <1>1, <3>1, <3>2, <3>3, <3>4
  <2> QED BY <2>1, <2>2
<1>6. Len(w) = n + Len(q1) - Readies(Len(q) + 1, Len(q1) + 1) - (IF Ended(q1) THEN 1 ELSE 0)
  BY <1>1, <1>2, <1>4, ReadiesBit
<1>7. Len(q) + 1 \in 0..Len(q1) BY <1>1
<1>8. FramesTell(n, q1, w, Len(q) + 1) BY <1>5, <1>6, <1>7 DEF FramesTell
<1> QED BY <1>2, <1>8 DEF q1

\* The worker says that it failed.
LEMMA FailureIsTold ==
    ASSUME NEW n \in Nat, NEW q \in Seq(Frame), NEW w \in Seq(HeadEvents), NEW r,
           FramesTell(n, q, w, r), ~Ended(q)
    PROVE  FramesTell(n, Append(q, "fatal"), w, r)
<1> DEFINE q1 == Append(q, "fatal")
<1>1. /\ Len(q) \in Nat /\ Len(w) \in Nat /\ r \in 0..Len(q) /\ q1 # <<>>
      /\ Len(q1) = Len(q) + 1 /\ q1[Len(q) + 1] = "fatal" /\ \A i \in 1..Len(q) : q1[i] = q[i]
  BY AppendProperties, LenProperties DEF Frame, FramesTell
<1> HIDE DEF q1
<1>2. Ended(q1) BY <1>1 DEF Ended
<1>3. Len(w) = n + Len(q) - Readies(r, Len(q) + 1)
  <2>1. Len(w) = n + Len(q) - Readies(r, Len(q) + 1) - 0 BY DEF FramesTell
  <2> QED BY <1>1, <2>1, ReadiesBit
<1>4. Readies(r, Len(q1) + 1) = Readies(r, Len(q) + 1) /\ Readies(r, Len(q) + 1) \in 0..1
  BY <1>1 DEF Readies
<1>5. Len(w) = n + Len(q1) - Readies(r, Len(q1) + 1) - 1 BY <1>1, <1>3, <1>4
<1>6. ASSUME NEW i \in 1..Len(q1)
      PROVE  /\ q1[i] = "ready" <=> i = r
             /\ q1[i] = "fatal" => i = Len(q1)
             /\ q1[i] \in HeadEvents => q1[i] = w[n + i - Readies(r, i)]
  <2>1. CASE i = Len(q) + 1 BY <1>1, <2>1 DEF HeadEvents
  <2>2. CASE i # Len(q) + 1
    <3>1. i \in 1..Len(q) /\ q1[i] = q[i] BY <1>1, <2>2
    <3>2. /\ q[i] = "ready" <=> i = r
          /\ q[i] = "fatal" => i = Len(q)
          /\ q[i] \in HeadEvents => q[i] = w[n + i - Readies(r, i)]
      BY <3>1 DEF FramesTell
    <3>3. q[i] # "fatal" BY <1>1, <3>1, <3>2 DEF Ended
    <3> QED BY <3>1, <3>2, <3>3
  <2> QED BY <2>1, <2>2
<1>7. FramesTell(n, q1, w, r) BY <1>1, <1>2, <1>5, <1>6 DEF FramesTell
<1> QED BY <1>7 DEF q1

\* What a frame that is read leaves behind.
LEMMA TailOfFrames ==
    ASSUME NEW q \in Seq(Frame), q # <<>>
    PROVE  /\ Tail(q) \in Seq(Frame) /\ Head(q) = q[1] /\ q[1] \in Frame
           /\ Len(q) \in Nat /\ Len(q) > 0 /\ Len(Tail(q)) = Len(q) - 1
           /\ \A i \in 1..Len(Tail(q)) : Tail(q)[i] = q[i + 1]
           /\ q[1] # "fatal" => (Ended(Tail(q)) <=> Ended(q))
<1> DEFINE t == Tail(q)
<1>1. /\ t \in Seq(Frame) /\ Head(q) = q[1] /\ q[1] \in Frame
      /\ Len(q) \in Nat /\ Len(q) > 0 /\ Len(t) = Len(q) - 1
      /\ \A i \in 1..Len(t) : t[i] = q[i + 1]
  <2>1. Len(q) \in Nat /\ Len(q) > 0 BY LenProperties, EmptySeq
  <2> QED BY <2>1, HeadTailProperties
<1> HIDE DEF t
<1>2. t # <<>> <=> Len(q) > 1
  <2>1. t = <<>> <=> Len(t) = 0 BY <1>1, EmptySeq
  <2> QED BY <1>1, <2>1
<1>3. ASSUME q[1] # "fatal" PROVE Ended(t) <=> Ended(q)
  <2>1. CASE Len(q) = 1 BY <1>1, <1>2, <1>3, <2>1 DEF Ended
  <2>2. CASE Len(q) > 1
    <3>1. Len(t) \in 1..Len(t) /\ t[Len(t)] = q[Len(q)] BY <1>1, <2>2
    <3> QED BY <1>1, <1>2, <2>2, <3>1 DEF Ended
  <2> QED BY <1>1, <2>1, <2>2
<1> QED BY <1>1, <1>3 DEF t

\* An event is read from the pipe.
LEMMA EventIsRead ==
    ASSUME NEW n \in Nat, NEW q \in Seq(Frame), NEW w \in Seq(HeadEvents), NEW r,
           FramesTell(n, q, w, r), q # <<>>, Head(q) \in HeadEvents
    PROVE  /\ Head(q) = w[n + 1] /\ n + 1 <= Len(w) /\ r # 1
           /\ FramesTell(n + 1, Tail(q), w, IF r = 0 THEN 0 ELSE r - 1)
           /\ Ended(Tail(q)) <=> Ended(q)
<1> DEFINE t == Tail(q)
           s == IF r = 0 THEN 0 ELSE r - 1
<1>1. /\ t \in Seq(Frame) /\ Head(q) = q[1] /\ Len(q) \in Nat /\ Len(q) > 0 /\ Len(t) = Len(q) - 1
      /\ \A i \in 1..Len(t) : t[i] = q[i + 1]
      /\ q[1] # "fatal" => (Ended(t) <=> Ended(q))
  BY TailOfFrames
<1>2. /\ r \in 0..Len(q)
      /\ \A i \in 1..Len(q) :
            /\ q[i] = "ready" <=> i = r
            /\ q[i] = "fatal" => i = Len(q)
            /\ q[i] \in HeadEvents => q[i] = w[n + i - Readies(r, i)]
      /\ Len(w) = n + Len(q) - Readies(r, Len(q) + 1) - (IF Ended(q) THEN 1 ELSE 0)
  BY DEF FramesTell
<1>3. 1 \in 1..Len(q) /\ q[1] # "ready" /\ q[1] # "fatal" /\ r # 1
  <2>1. 1 \in 1..Len(q) BY <1>1
  <2>2. q[1] # "ready" /\ q[1] # "fatal" BY <1>1 DEF HeadEvents
  <2> QED BY <1>2, <2>1, <2>2
<1> HIDE DEF t
<1>4. q[1] = w[n + 1]
  <2>1. Readies(r, 1) = 0 BY <1>2, <1>3 DEF Readies
  <2> QED BY <1>1, <1>2, <1>3, <2>1
<1>5. /\ s \in 0..Len(t) /\ Readies(s, Len(t) + 1) = Readies(r, Len(q) + 1)
      /\ Readies(r, Len(q) + 1) \in {0, 1}
  BY <1>1, <1>2, <1>3 DEF Readies
<1>6. ASSUME NEW i \in 1..Len(t)
      PROVE  i + 1 \in 1..Len(q) /\ Readies(s, i) = Readies(r, i + 1) /\ (i = s <=> i + 1 = r)
  BY <1>1, <1>2, <1>3 DEF Readies
<1> HIDE DEF s
<1>7. Len(w) = n + 1 + Len(t) - Readies(s, Len(t) + 1) - (IF Ended(t) THEN 1 ELSE 0)
  <2>1. Ended(t) <=> Ended(q) BY <1>1, <1>3
  <2>2. Len(q) = Len(t) + 1 /\ Len(t) \in Int BY <1>1
  <2>3. PICK bit \in {0, 1} :
          Readies(s, Len(t) + 1) = bit /\ Readies(r, Len(q) + 1) = bit
    BY <1>5
  <2>4. PICK last \in {0, 1} : last = IF Ended(q) THEN 1 ELSE 0 OBVIOUS
  <2>5. Len(w) = n + Len(q) - bit - last BY <1>2, <2>3, <2>4
  <2>6. Len(w) = n + 1 + Len(t) - bit - last BY <2>2, <2>5
  <2> QED BY <2>1, <2>3, <2>4, <2>6
<1>8. ASSUME NEW i \in 1..Len(t)
      PROVE  /\ t[i] = "ready" <=> i = s
             /\ t[i] = "fatal" => i = Len(t)
             /\ t[i] \in HeadEvents => t[i] = w[n + 1 + i - Readies(s, i)]
  <2>1. i + 1 \in 1..Len(q) /\ t[i] = q[i + 1] BY <1>1, <1>6
  <2>2. /\ q[i + 1] = "ready" <=> i + 1 = r
        /\ q[i + 1] = "fatal" => i + 1 = Len(q)
        /\ q[i + 1] \in HeadEvents => q[i + 1] = w[n + (i + 1) - Readies(r, i + 1)]
    BY <1>2, <2>1
  <2>3. n + (i + 1) - Readies(r, i + 1) = n + 1 + i - Readies(s, i)
    <3>1. Readies(s, i) = Readies(r, i + 1) BY <1>6
    <3>2. i \in Nat BY <1>1
    <3>3. Readies(s, i) \in Int BY ReadiesBit
    <3>4. \A a, b, c \in Int : a + (b + 1) - c = a + 1 + b - c OBVIOUS
    <3>5. n + (i + 1) - Readies(s, i) = n + 1 + i - Readies(s, i) BY <3>2, <3>3, <3>4
    <3> QED BY <3>1, <3>5
  <2> QED BY <1>1, <1>6, <2>1, <2>2, <2>3
<1>9. FramesTell(n + 1, t, w, s) BY <1>5, <1>7, <1>8 DEF FramesTell
<1>10. n + 1 <= Len(w)
  <2>1. CASE Len(q) = 1
    <3>1. ~Ended(q) BY <1>3, <2>1 DEF Ended
    <3>2. r = 0 BY <1>2, <1>3, <2>1
    <3> QED BY <1>2, <2>1, <3>1, <3>2 DEF Readies
  <2>2. CASE Len(q) > 1
    <3>1. CASE r = 0 BY <1>1, <1>2, <2>2, <3>1 DEF Readies
    <3>2. CASE r # 0 /\ ~Ended(q) BY <1>1, <1>2, <2>2, <3>2 DEF Readies
    <3>3. CASE r # 0 /\ Ended(q)
      <4>1. q[Len(q)] = "fatal" BY <3>3 DEF Ended
      <4>2. r # Len(q) BY <1>1, <1>2, <2>2, <4>1
      <4> QED BY <1>1, <1>2, <1>3, <3>3, <4>2 DEF Readies
    <3> QED BY <3>1, <3>2, <3>3
  <2> QED BY <1>1, <2>1, <2>2
<1> QED BY <1>1, <1>3, <1>4, <1>9, <1>10 DEF t, s

\* The frame that says that the worker is ready is read.
LEMMA ReadyIsRead ==
    ASSUME NEW n \in Nat, NEW q \in Seq(Frame), NEW w \in Seq(HeadEvents), NEW r,
           FramesTell(n, q, w, r), q # <<>>, Head(q) = "ready"
    PROVE  /\ r = 1 /\ FramesTell(n, Tail(q), w, 0)
           /\ Ended(Tail(q)) <=> Ended(q)
<1> DEFINE t == Tail(q)
<1>1. /\ t \in Seq(Frame) /\ Head(q) = q[1] /\ Len(q) \in Nat /\ Len(q) > 0 /\ Len(t) = Len(q) - 1
      /\ \A i \in 1..Len(t) : t[i] = q[i + 1]
      /\ q[1] # "fatal" => (Ended(t) <=> Ended(q))
  BY TailOfFrames
<1>2. /\ \A i \in 1..Len(q) :
            /\ q[i] = "ready" <=> i = r
            /\ q[i] = "fatal" => i = Len(q)
            /\ q[i] \in HeadEvents => q[i] = w[n + i - Readies(r, i)]
      /\ Len(w) = n + Len(q) - Readies(r, Len(q) + 1) - (IF Ended(q) THEN 1 ELSE 0)
  BY DEF FramesTell
<1> HIDE DEF t
<1>3. r = 1 BY <1>1, <1>2
<1>4. Ended(t) <=> Ended(q) BY <1>1
<1>5. Len(w) = n + Len(t) - Readies(0, Len(t) + 1) - (IF Ended(t) THEN 1 ELSE 0)
  <2>1. Readies(r, Len(q) + 1) = 1 /\ Readies(0, Len(t) + 1) = 0 BY <1>1, <1>3 DEF Readies
  <2>2. CASE Ended(q)
    <3>1. Len(w) = n + Len(q) - 1 - 1 BY <1>2, <2>1, <2>2
    <3>2. Len(w) = n + Len(t) - 0 - 1 BY <1>1, <3>1
    <3> QED BY <1>4, <2>1, <2>2, <3>2
  <2>3. CASE ~Ended(q)
    <3>1. Len(w) = n + Len(q) - 1 - 0 BY <1>2, <2>1, <2>3
    <3>2. Len(w) = n + Len(t) - 0 - 0 BY <1>1, <3>1
    <3> QED BY <1>4, <2>1, <2>3, <3>2
  <2> QED BY <2>2, <2>3
<1>6. ASSUME NEW i \in 1..Len(t)
      PROVE  /\ t[i] = "ready" <=> i = 0
             /\ t[i] = "fatal" => i = Len(t)
             /\ t[i] \in HeadEvents => t[i] = w[n + i - Readies(0, i)]
  <2>1. i + 1 \in 1..Len(q) /\ t[i] = q[i + 1] BY <1>1
  <2>2. /\ q[i + 1] = "ready" <=> i + 1 = r
        /\ q[i + 1] = "fatal" => i + 1 = Len(q)
        /\ q[i + 1] \in HeadEvents => q[i + 1] = w[n + (i + 1) - Readies(r, i + 1)]
    BY <1>2, <2>1
  <2>3. n + (i + 1) - Readies(r, i + 1) = n + i - Readies(0, i) BY <1>3 DEF Readies
  <2> QED BY <1>1, <1>3, <2>1, <2>2, <2>3
<1>7. 0 \in 0..Len(t) BY <1>1
<1>8. FramesTell(n, t, w, 0) BY <1>5, <1>6, <1>7 DEF FramesTell
<1> QED BY <1>3, <1>4, <1>8 DEF t

\* The failure of the worker is read.
LEMMA FailureIsRead ==
    ASSUME NEW n \in Nat, NEW q \in Seq(Frame), NEW w \in Seq(HeadEvents), NEW r,
           FramesTell(n, q, w, r), q # <<>>, Head(q) = "fatal"
    PROVE  r = 0 /\ Ended(q) /\ FramesTell(n, Tail(q), w, 0) /\ ~Ended(Tail(q))
<1>1. /\ Tail(q) \in Seq(Frame) /\ Head(q) = q[1] /\ Len(q) \in Nat /\ Len(q) > 0
      /\ Len(Tail(q)) = Len(q) - 1
  BY TailOfFrames
<1>2. /\ r \in 0..Len(q)
      /\ \A i \in 1..Len(q) :
            /\ q[i] = "ready" <=> i = r
            /\ q[i] = "fatal" => i = Len(q)
      /\ Len(w) = n + Len(q) - Readies(r, Len(q) + 1) - (IF Ended(q) THEN 1 ELSE 0)
  BY DEF FramesTell
<1>3. 1 \in 1..Len(q) /\ Len(q) = 1 /\ r # 1
  <2>1. 1 \in 1..Len(q) BY <1>1
  <2>2. q[1] = "fatal" BY <1>1
  <2> QED BY <1>2, <2>1, <2>2
<1>4. r = 0 BY <1>2, <1>3
<1>5. Ended(q) BY <1>1, <1>3 DEF Ended
<1>6. Len(Tail(q)) = 0 /\ Tail(q) = <<>>
  <2> DEFINE t == Tail(q)
  <2>1. t \in Seq(Frame) /\ Len(t) = 0 BY <1>1, <1>3
  <2> HIDE DEF t
  <2>2. t = <<>> BY <2>1, EmptySeq
  <2> QED BY <2>1, <2>2 DEF t
<1>7. ~Ended(Tail(q)) BY <1>6 DEF Ended
<1>8. Len(w) = n BY <1>2, <1>3, <1>4, <1>5 DEF Readies
<1>9. FramesTell(n, Tail(q), w, 0)
  <2>1. Len(w) = n + Len(Tail(q)) - Readies(0, Len(Tail(q)) + 1) - (IF Ended(Tail(q)) THEN 1 ELSE 0)
    <3>1. Len(w) = n + 0 - 0 - 0 BY <1>8
    <3>2. Readies(0, Len(Tail(q)) + 1) = 0 BY DEF Readies
    <3> QED BY <1>6, <1>7, <3>1, <3>2
  <2>2. Len(Tail(q)) = 0 BY <1>6
  <2>3. 0 \in 0..0 /\ \A i \in 1..0 : FALSE OBVIOUS
  <2> QED BY <2>1, <2>2, <2>3 DEF FramesTell
<1> QED BY <1>4, <1>5, <1>7, <1>9

\* What came early stays in order when an event is written or read.
LEMMA ReadingKeepsOrder ==
    ASSUME NEW h \in Seq(HeadEvents), NEW p \in Seq(HeadEvents), NEW w \in Seq(HeadEvents),
           NEW e \in HeadEvents, ReadInOrder(h, p, w)
    PROVE  /\ Len(h) + Len(p) \in Nat
           /\ ReadInOrder(h, p, Append(w, e))
           /\ (Len(h) + Len(p) + 1 <= Len(w) /\ e = w[Len(h) + Len(p) + 1])
                => /\ ReadInOrder(h, Append(p, e), w)
                   /\ Len(h) + Len(Append(p, e)) = Len(h) + Len(p) + 1
<1> DEFINE p1 == Append(p, e)
           w1 == Append(w, e)
<1>1. Len(h) \in Nat /\ Len(p) \in Nat /\ Len(w) \in Nat BY LenProperties
<1>2. /\ Len(p1) = Len(p) + 1 /\ p1[Len(p) + 1] = e /\ \A i \in 1..Len(p) : p1[i] = p[i]
      /\ Len(w1) = Len(w) + 1 /\ \A i \in 1..Len(w) : w1[i] = w[i]
  BY AppendProperties
<1> HIDE DEF p1, w1
<1>4. /\ Len(h) + Len(p) <= Len(w)
      /\ \A i \in 1..Len(h) : h[i] = w[i]
      /\ \A i \in 1..Len(p) : p[i] = w[Len(h) + i]
  BY DEF ReadInOrder
<1>5. ReadInOrder(h, p, w1)
  <2>1. \A i \in 1..Len(h) : i \in 1..Len(w) BY <1>1, <1>4
  <2>2. \A i \in 1..Len(p) : Len(h) + i \in 1..Len(w) BY <1>1, <1>4
  <2> QED BY <1>1, <1>2, <1>4, <2>1, <2>2 DEF ReadInOrder
<1>6. ASSUME Len(h) + Len(p) + 1 <= Len(w), e = w[Len(h) + Len(p) + 1]
      PROVE  ReadInOrder(h, p1, w)
  <2>1. ASSUME NEW i \in 1..Len(p1) PROVE p1[i] = w[Len(h) + i]
    <3>1. CASE i = Len(p) + 1
      <4>1. Len(h) + i = Len(h) + Len(p) + 1 BY <1>1, <3>1
      <4> QED BY <1>2, <1>6, <3>1, <4>1
    <3>2. CASE i # Len(p) + 1
      <4>1. i \in 1..Len(p) BY <1>1, <1>2, <3>2
      <4> QED BY <1>2, <1>4, <4>1
    <3> QED BY <3>1, <3>2
  <2>2. Len(h) + Len(p1) <= Len(w) BY <1>1, <1>2, <1>6
  <2> QED BY <1>4, <2>1, <2>2 DEF ReadInOrder
<1>7. /\ Len(h) + Len(p) \in Nat /\ Len(h) + Len(p1) = Len(h) + Len(p) + 1
  BY <1>1, <1>2
<1> QED BY <1>5, <1>6, <1>7 DEF p1, w1

\* The bridge handles what it reads when nothing came early.
LEMMA NextIsHandled ==
    ASSUME NEW h \in Seq(HeadEvents), NEW w \in Seq(HeadEvents), NEW e \in HeadEvents,
           ReadInOrder(h, <<>>, w), Len(h) + Len(<<>>) + 1 <= Len(w),
           e = w[Len(h) + Len(<<>>) + 1]
    PROVE  /\ ReadInOrder(Append(h, e), <<>>, w)
           /\ Len(Append(h, e)) + Len(<<>>) = Len(h) + Len(<<>>) + 1
<1> DEFINE h1 == Append(h, e)
<1>1. Len(h) \in Nat /\ Len(w) \in Nat /\ Len(<<>>) = 0 BY LenProperties, EmptySeq
<1>2. Len(h1) = Len(h) + 1 /\ h1[Len(h) + 1] = e /\ \A i \in 1..Len(h) : h1[i] = h[i]
  BY AppendProperties
<1> HIDE DEF h1
<1>3. \A i \in 1..Len(h) : h[i] = w[i] BY DEF ReadInOrder
<1>4. Len(h) + 1 <= Len(w) /\ e = w[Len(h) + 1]
  <2>1. Len(h) + Len(<<>>) + 1 = Len(h) + 1 BY <1>1
  <2> QED BY <2>1
<1>5. ASSUME NEW i \in 1..Len(h1) PROVE h1[i] = w[i]
  <2>1. CASE i = Len(h) + 1 BY <1>2, <1>4, <2>1
  <2>2. CASE i # Len(h) + 1
    <3>1. i \in 1..Len(h) BY <1>1, <1>2, <2>2
    <3> QED BY <1>2, <1>3, <3>1
  <2> QED BY <2>1, <2>2
<1>6. Len(h1) + Len(<<>>) = Len(h) + Len(<<>>) + 1 /\ Len(h1) + Len(<<>>) <= Len(w)
  BY <1>1, <1>2, <1>4
<1>7. \A i \in 1..Len(<<>>) : <<>>[i] = w[Len(h1) + i]
  <2>1. 1..Len(<<>>) = {} BY <1>1
  <2> QED BY <2>1
<1>8. ReadInOrder(h1, <<>>, w) BY <1>5, <1>6, <1>7 DEF ReadInOrder
<1> QED BY <1>6, <1>8 DEF h1

\* What came early stays in order when the bridge takes the first of it.
LEMMA EarlyIsTaken ==
    ASSUME NEW h \in Seq(HeadEvents), NEW p \in Seq(HeadEvents), NEW w \in Seq(HeadEvents),
           ReadInOrder(h, p, w), p # <<>>
    PROVE  /\ ReadInOrder(Append(h, Head(p)), Tail(p), w)
           /\ Len(Append(h, Head(p))) + Len(Tail(p)) = Len(h) + Len(p)
<1> DEFINE e == Head(p)
           h1 == Append(h, e)
           t == Tail(p)
<1>1. Len(h) \in Nat /\ Len(p) \in Nat /\ Len(w) \in Nat BY LenProperties
<1>2. /\ Len(p) > 0 /\ Len(t) = Len(p) - 1 /\ e = p[1] /\ e \in HeadEvents
      /\ \A i \in 1..Len(t) : t[i] = p[i + 1]
  <2>1. Len(p) > 0 BY <1>1, EmptySeq
  <2> QED BY <1>1, <2>1, HeadTailProperties
<1> HIDE DEF e, t
<1>3. /\ Len(h1) = Len(h) + 1 /\ h1[Len(h) + 1] = e /\ \A i \in 1..Len(h) : h1[i] = h[i]
  BY <1>2, AppendProperties
<1> HIDE DEF h1
<1>4. /\ Len(h) + Len(p) <= Len(w)
      /\ \A i \in 1..Len(h) : h[i] = w[i]
      /\ \A i \in 1..Len(p) : p[i] = w[Len(h) + i]
  BY DEF ReadInOrder
<1>5. e = w[Len(h) + 1]
  <2>1. 1 \in 1..Len(p) BY <1>1, <1>2
  <2> QED BY <1>2, <1>4, <2>1
<1>6. ASSUME NEW i \in 1..Len(h1) PROVE h1[i] = w[i]
  <2>1. CASE i = Len(h) + 1 BY <1>3, <1>5, <2>1
  <2>2. CASE i # Len(h) + 1
    <3>1. i \in 1..Len(h) BY <1>1, <1>3, <2>2
    <3> QED BY <1>3, <1>4, <3>1
  <2> QED BY <2>1, <2>2
<1>7. Len(h1) + Len(t) = Len(h) + Len(p) BY <1>1, <1>2, <1>3
<1>8. ASSUME NEW i \in 1..Len(t) PROVE t[i] = w[Len(h1) + i]
  <2>1. i + 1 \in 1..Len(p) /\ Len(h1) + i = Len(h) + (i + 1) BY <1>1, <1>2, <1>3
  <2> QED BY <1>2, <1>4, <2>1
<1>9. ReadInOrder(h1, t, w) BY <1>4, <1>6, <1>7, <1>8 DEF ReadInOrder
<1> QED BY <1>7, <1>9 DEF e, h1, t

\* An order that is kept is the order of all that is there.
LEMMA AllIsTold ==
    ASSUME NEW h \in Seq(Frame), NEW p \in Seq(Frame), NEW q \in Seq(Frame), NEW w \in Seq(Frame),
           ReadInOrder(h, p, w), FramesTell(Len(h) + Len(p), q, w, 0)
    PROVE  h \o p \o q \in {w, Append(w, "fatal")}
<1> DEFINE b == h \o p
           a == b \o q
           x == Append(w, "fatal")
<1>1. Len(h) \in Nat /\ Len(p) \in Nat /\ Len(q) \in Nat /\ Len(w) \in Nat BY LenProperties
<1>2. /\ b \in Seq(Frame) /\ Len(b) = Len(h) + Len(p)
      /\ \A i \in 1..(Len(h) + Len(p)) : b[i] = IF i <= Len(h) THEN h[i] ELSE p[i - Len(h)]
  <2>1. b \in Seq(Frame) BY ConcatProperties
  <2>2. Len(b) = Len(h) + Len(p) BY ConcatProperties
  <2>3. \A i \in 1..(Len(h) + Len(p)) : b[i] = IF i <= Len(h) THEN h[i] ELSE p[i - Len(h)]
    BY ConcatProperties
  <2> QED BY <2>1, <2>2, <2>3
<1> HIDE DEF b
<1>3. /\ a \in Seq(Frame) /\ Len(a) = Len(b) + Len(q)
      /\ \A i \in 1..(Len(b) + Len(q)) : a[i] = IF i <= Len(b) THEN b[i] ELSE q[i - Len(b)]
  <2>1. a \in Seq(Frame) BY <1>2, ConcatProperties
  <2>2. Len(a) = Len(b) + Len(q) BY <1>2, ConcatProperties
  <2>3. \A i \in 1..(Len(b) + Len(q)) : a[i] = IF i <= Len(b) THEN b[i] ELSE q[i - Len(b)]
    BY <1>2, ConcatProperties
  <2> QED BY <2>1, <2>2, <2>3
<1>4. /\ x \in Seq(Frame) /\ Len(x) = Len(w) + 1 /\ x[Len(w) + 1] = "fatal"
      /\ \A i \in 1..Len(w) : x[i] = w[i]
  BY AppendProperties DEF Frame
<1> HIDE DEF a, x
<1>5. /\ \A i \in 1..Len(h) : h[i] = w[i]
      /\ \A i \in 1..Len(p) : p[i] = w[Len(h) + i]
  BY DEF ReadInOrder
<1>6. /\ \A i \in 1..Len(q) : /\ q[i] # "ready"
                              /\ q[i] = "fatal" => i = Len(q)
                              /\ q[i] \in HeadEvents => q[i] = w[Len(b) + i]
      /\ Len(w) = Len(b) + Len(q) - (IF Ended(q) THEN 1 ELSE 0)
  <2>1. \A i \in 1..Len(q) : i # 0 /\ Readies(0, i) = 0 /\ Len(b) + i - 0 = Len(b) + i
    BY <1>1, <1>2 DEF Readies
  <2>2. Readies(0, Len(q) + 1) = 0 BY DEF Readies
  <2>3. /\ \A i \in 1..Len(q) : /\ q[i] = "ready" <=> i = 0
                                /\ q[i] = "fatal" => i = Len(q)
                                /\ q[i] \in HeadEvents => q[i] = w[Len(b) + i - Readies(0, i)]
        /\ Len(w) = Len(b) + Len(q) - Readies(0, Len(q) + 1) - (IF Ended(q) THEN 1 ELSE 0)
    BY <1>2 DEF FramesTell
  <2>4. Len(b) + Len(q) - 0 = Len(b) + Len(q) BY <1>1, <1>2
  <2> QED BY <2>1, <2>2, <2>3, <2>4
<1>7. ASSUME NEW i \in 1..Len(a), i <= Len(w) PROVE a[i] = w[i]
  <2>1. CASE i <= Len(h)
    <3>1. i \in 1..Len(h) BY <1>1, <1>2, <1>3, <2>1
    <3>2. i \in 1..(Len(b) + Len(q)) /\ i \in 1..(Len(h) + Len(p)) /\ i <= Len(b)
      BY <1>1, <1>2, <1>3, <2>1
    <3>3. a[i] = b[i] BY <1>3, <3>2
    <3>4. b[i] = h[i] BY <1>2, <2>1, <3>2
    <3> QED BY <1>5, <3>1, <3>3, <3>4
  <2>2. CASE i > Len(h) /\ i <= Len(b)
    <3>1. i - Len(h) \in 1..Len(p) /\ Len(h) + (i - Len(h)) = i BY <1>1, <1>2, <2>2
    <3>2. a[i] = p[i - Len(h)] BY <1>1, <1>2, <1>3, <2>2
    <3>3. p[i - Len(h)] = w[Len(h) + (i - Len(h))] BY <1>5, <3>1
    <3> QED BY <3>1, <3>2, <3>3
  <2>3. CASE i > Len(b)
    <3>1. i - Len(b) \in 1..Len(q) /\ Len(b) + (i - Len(b)) = i /\ a[i] = q[i - Len(b)]
      BY <1>1, <1>2, <1>3, <2>3
    <3>2. q[i - Len(b)] # "fatal"
      <4> SUFFICES ASSUME q[i - Len(b)] = "fatal" PROVE FALSE
        OBVIOUS
      <4>1. i - Len(b) = Len(q) BY <1>6, <3>1
      <4>2. q # <<>> BY <1>1, <3>1, EmptySeq
      <4>3. Ended(q) BY <4>1, <4>2 DEF Ended
      <4> QED BY <1>1, <1>2, <1>6, <1>7, <4>1, <4>3
    <3>3. q[i - Len(b)] \in HeadEvents
      <4>1. q[i - Len(b)] \in Frame BY <3>1, ElementOfSeq
      <4> QED BY <1>6, <3>1, <3>2, <4>1 DEF Frame
    <3>4. q[i - Len(b)] = w[Len(b) + (i - Len(b))] BY <1>6, <3>1, <3>3
    <3> QED BY <3>1, <3>4
  <2> QED BY <1>1, <1>2, <2>1, <2>2, <2>3
<1>8. CASE ~Ended(q)
  <2>1. Len(a) = Len(w) BY <1>1, <1>2, <1>3, <1>6, <1>8
  <2>2. \A i \in 1..Len(a) : a[i] = w[i] BY <1>1, <1>7, <2>1
  <2>3. a = w BY <1>3, <2>1, <2>2, SeqEqual
  <2> QED BY <2>3 DEF a, b
<1>9. CASE Ended(q)
  <2>1. Len(q) > 0 /\ q[Len(q)] = "fatal" BY <1>1, <1>9, EmptySeq DEF Ended
  <2>2. Len(a) = Len(x) /\ Len(a) = Len(w) + 1 BY <1>1, <1>2, <1>3, <1>4, <1>6, <1>9
  <2>3. a[Len(w) + 1] = "fatal"
    <3>1. Len(w) + 1 \in 1..(Len(b) + Len(q)) /\ Len(w) + 1 > Len(b) /\ Len(w) + 1 - Len(b) = Len(q)
      BY <1>1, <1>2, <1>6, <1>9, <2>1
    <3> QED BY <1>1, <1>2, <1>3, <2>1, <3>1
  <2>4. ASSUME NEW i \in 1..Len(a) PROVE a[i] = x[i]
    <3>1. CASE i = Len(w) + 1 BY <1>4, <2>3, <3>1
    <3>2. CASE i # Len(w) + 1
      <4>1. i \in 1..Len(w) /\ i <= Len(w) BY <1>1, <2>2, <3>2
      <4> QED BY <1>4, <1>7, <4>1
    <3> QED BY <3>1, <3>2
  <2>5. a = x BY <1>3, <1>4, <2>2, <2>4, SeqEqual
  <2> QED BY <2>5 DEF a, b, x
<1> QED BY <1>8, <1>9

\* What the bridge takes next was written by the worker, and is at the head of
\* what came early or of the pipe.
LEMMA NextIsWritten ==
    ASSUME HeadInv, NextFrame
    PROVE  LET e == Head(pending \o pipe) IN
           /\ e \in HeadEvents /\ handled' = Append(handled, e)
           /\ pending = <<>> => pipe # <<>> /\ e = Head(pipe)
           /\ pending # <<>> => e = Head(pending)
<1>a. HeadTypes /\ InOrder /\ head = "up" /\ source = "worker"
  BY DEF HeadInv, NextFrame
<1>1. /\ pending \o pipe # <<>> /\ Head(pending \o pipe) # "fatal"
      /\ handled' = Append(handled, Head(pending \o pipe))
  BY DEF NextFrame
<1>2. pending \in Seq(HeadEvents) /\ pending \in Seq(Frame) /\ pipe \in Seq(Frame)
  BY <1>a, SeqMonotonic DEF HeadTypes, Frame
<1>3. CASE pending = <<>>
  <2>1. pending \o pipe = pipe BY <1>2, <1>3, ConcatEmptySeq
  <2>2. pipe # <<>> /\ Head(pipe) = pipe[1] /\ 1 \in 1..Len(pipe) /\ Head(pipe) \in Frame
    BY <1>1, <1>2, <2>1, EmptySeq, HeadTailProperties
  <2>3. FramesTell(Len(handled) + Len(pending), pipe, written, 0) BY <1>a DEF InOrder
  <2>4. Head(pipe) # "ready" BY <2>2, <2>3 DEF FramesTell
  <2> QED BY <1>1, <1>3, <2>1, <2>2, <2>4 DEF Frame
<1>4. CASE pending # <<>>
  <2>1. Head(pending \o pipe) = Head(pending) BY <1>2, <1>4, EmptySeq
  <2>2. Head(pending) \in HeadEvents BY <1>2, <1>4, HeadTailProperties
  <2> QED BY <1>1, <1>4, <2>1, <2>2
<1> QED BY <1>3, <1>4

LEMMA HeadBitsStep == HeadInv /\ [HeadNext]_headVars => HeadBits'
<1> SUFFICES ASSUME HeadInv, [HeadNext]_headVars PROVE HeadBits'
  OBVIOUS
<1> USE DEF headsetVars, workerVars, bridgeVars
<1>a. HeadBits BY DEF HeadInv
<1>1. headOn' \in BOOLEAN
  BY <1>a DEF HeadBits, HeadNext, headVars, Blink, LinkChanges, CountsAnewUnseen, WorkerWrites,
     WorkerReady, WorkerFails, WorkerObeys, HeadStarts, ApiStarted, StartReads, StartFails,
     Activates, PollsOff, PollsBlink, PollsReading, NextFrame, EventsEnd, HeadCloses, TellsWorker,
     WorkerEnded, WaitTimesOut
<1>2. /\ UNCHANGED linked \/ linked' = TRUE \/ linked' = FALSE
      /\ UNCHANGED activated \/ activated' = TRUE \/ activated' = FALSE
      /\ \/ UNCHANGED shutdown \/ shutdown' = FALSE
         \/ shutdown' = (worker \in {"connecting", "serving"})
  <2>1. CASE \/ PollsOff \/ PollsBlink \/ (\E e \in {"reading", "on"} : PollsReading(e))
             \/ NextFrame
    BY <2>1 DEF PollsOff, PollsBlink, PollsReading, NextFrame
  <2>2. CASE \/ Blink \/ LinkChanges \/ CountsAnewUnseen \/ (\E e \in HeadEvents : WorkerWrites(e))
             \/ WorkerReady \/ WorkerFails \/ WorkerObeys \/ HeadStarts \/ ApiStarted
    BY <2>2 DEF Blink, LinkChanges, CountsAnewUnseen, WorkerWrites, WorkerReady, WorkerFails,
       WorkerObeys, HeadStarts, ApiStarted
  <2>3. CASE \/ StartReads \/ StartFails \/ Activates \/ EventsEnd \/ HeadCloses \/ TellsWorker
             \/ WorkerEnded \/ WaitTimesOut \/ UNCHANGED headVars
    BY <2>3 DEF StartReads, StartFails, Activates, EventsEnd, HeadCloses, TellsWorker, WorkerEnded,
       WaitTimesOut, headVars
  <2> QED BY <2>1, <2>2, <2>3 DEF HeadNext
<1>3. /\ UNCHANGED believed \/ believed' = TRUE \/ believed' = FALSE
         \/ \E e : believed' = (e = "on" \/ (believed /\ e # "off"))
      /\ UNCHANGED headError \/ headError' = TRUE \/ headError' = FALSE
         \/ \E e : headError' = (e = "off")
  <2>1. CASE PollsOff \/ PollsBlink \/ (\E e \in {"reading", "on"} : PollsReading(e)) \/ NextFrame
    BY <2>1 DEF PollsOff, PollsBlink, PollsReading, NextFrame, TakesEvent
  <2>2. CASE \/ Blink \/ LinkChanges \/ CountsAnewUnseen \/ (\E e \in HeadEvents : WorkerWrites(e))
             \/ WorkerReady \/ WorkerFails \/ WorkerObeys \/ HeadStarts \/ ApiStarted
    BY <2>2 DEF Blink, LinkChanges, CountsAnewUnseen, WorkerWrites, WorkerReady, WorkerFails,
       WorkerObeys, HeadStarts, ApiStarted
  <2>3. CASE \/ StartReads \/ StartFails \/ Activates \/ EventsEnd \/ HeadCloses \/ TellsWorker
             \/ WorkerEnded \/ WaitTimesOut \/ UNCHANGED headVars
    BY <2>3 DEF StartReads, StartFails, Activates, EventsEnd, HeadCloses, TellsWorker, WorkerEnded,
       WaitTimesOut, headVars
  <2> QED BY <2>1, <2>2, <2>3 DEF HeadNext
<1>4. believed' \in BOOLEAN /\ headError' \in BOOLEAN BY <1>a, <1>3 DEF HeadBits
<1>5. linked' \in BOOLEAN /\ activated' \in BOOLEAN /\ shutdown' \in BOOLEAN
  <2>1. linked' \in BOOLEAN BY <1>a, <1>2 DEF HeadBits
  <2>2. activated' \in BOOLEAN BY <1>a, <1>2 DEF HeadBits
  <2>3. (worker \in {"connecting", "serving"}) \in BOOLEAN OBVIOUS
  <2>4. shutdown' \in BOOLEAN BY <1>a, <1>2, <2>3, Zenon DEF HeadBits
  <2> QED BY <2>1, <2>2, <2>4
<1> QED BY <1>1, <1>4, <1>5 DEF HeadBits

LEMMA HeadTypesStep == HeadInv /\ [HeadNext]_headVars => HeadTypes'
<1> SUFFICES ASSUME HeadInv, [HeadNext]_headVars PROVE HeadTypes'
  OBVIOUS
<1> USE HeadsetAssumption DEF headsetVars, workerVars, bridgeVars
<1>a. HeadTypes BY DEF HeadInv
<1>1. CASE \/ Blink \/ LinkChanges \/ CountsAnewUnseen \/ WorkerObeys \/ ApiStarted \/ StartFails
           \/ Activates \/ PollsOff \/ PollsBlink \/ (\E e \in {"reading", "on"} : PollsReading(e))
  BY <1>a, <1>1 DEF HeadTypes, Blink, LinkChanges, CountsAnewUnseen, WorkerObeys, ApiStarted,
     StartFails, Activates, PollsOff, PollsBlink, CountedBlink, PollsReading
<1>2. CASE \/ EventsEnd \/ HeadCloses \/ TellsWorker \/ WorkerEnded \/ WaitTimesOut
           \/ UNCHANGED headVars
  BY <1>a, <1>2 DEF HeadTypes, EventsEnd, HeadCloses, TellsWorker, WorkerEnded, WaitTimesOut,
     Terminate, headVars
<1>3. ASSUME NEW e \in HeadEvents, WorkerWrites(e) PROVE HeadTypes'
  BY <1>a, <1>3, AppendProperties DEF HeadTypes, WorkerWrites, Frame
<1>4. CASE WorkerReady \/ WorkerFails
  <2>1. Append(pipe, "ready") \in Seq(Frame) /\ Append(pipe, "fatal") \in Seq(Frame)
    BY <1>a, AppendProperties DEF HeadTypes, Frame
  <2> QED BY <1>a, <1>4, <2>1 DEF HeadTypes, WorkerReady, WorkerFails
<1>5. CASE HeadStarts BY <1>a, <1>5, EmptySeq DEF HeadTypes, HeadStarts
<1>6. CASE StartReads
  <2>1. Head(pipe) \in Frame /\ Tail(pipe) \in Seq(Frame)
    BY <1>a, <1>6, HeadTailProperties DEF HeadTypes, StartReads
  <2>2. Head(pipe) \in HeadEvents => Append(pending, Head(pipe)) \in Seq(HeadEvents)
    BY <1>a, AppendProperties DEF HeadTypes
  <2>3. pending' \in Seq(HeadEvents)
    BY <1>a, <1>6, <2>2 DEF HeadTypes, StartReads, KeepEarly
  <2> QED BY <1>a, <1>6, <2>1, <2>3 DEF HeadTypes, StartReads
<1>7. CASE NextFrame
  <2>1. /\ pending # <<>> => Tail(pending) \in Seq(HeadEvents)
        /\ pipe # <<>> => Tail(pipe) \in Seq(Frame)
    BY <1>a, HeadTailProperties DEF HeadTypes
  <2>2. pipe' \in Seq(Frame) /\ pending' \in Seq(HeadEvents)
    BY <1>a, <1>7, <2>1, NextIsWritten DEF HeadTypes, NextFrame
  <2>3. handled' \in Seq(HeadEvents)
    <3>1. PICK e \in HeadEvents : handled' = Append(handled, e) BY <1>7, NextIsWritten
    <3> QED BY <1>a, <3>1, AppendProperties DEF HeadTypes
  <2> QED BY <1>a, <1>7, <2>2, <2>3 DEF HeadTypes, NextFrame
<1> QED BY <1>1, <1>2, <1>3, <1>4, <1>5, <1>6, <1>7 DEF HeadNext

LEMMA HeadSmallStep ==
    HeadInv /\ [HeadNext]_headVars => WorkersEnd' /\ CountIsOfBlinks' /\ ~phantom'
<1> SUFFICES ASSUME HeadInv, [HeadNext]_headVars
             PROVE  WorkersEnd' /\ CountIsOfBlinks' /\ ~phantom'
  OBVIOUS
<1> USE DEF headsetVars, workerVars, bridgeVars
<1>a. HeadTypes /\ WorkersEnd /\ CountIsOfBlinks /\ ~phantom BY DEF HeadInv
<1>1. WorkersEnd'
  BY <1>a DEF HeadTypes, WorkersEnd, HeadNext, headVars, Blink, LinkChanges, CountsAnewUnseen,
     WorkerWrites, WorkerReady, WorkerFails, WorkerObeys, HeadStarts, ApiStarted, StartReads,
     StartFails, Activates, PollsOff, PollsBlink, PollsReading, NextFrame, EventsEnd, HeadCloses,
     TellsWorker, WorkerEnded, WaitTimesOut, Terminate
<1>2. CountIsOfBlinks'
  <2>1. CASE \/ Blink \/ LinkChanges \/ CountsAnewUnseen \/ ApiStarted \/ PollsOff \/ PollsBlink
             \/ (\E e \in {"reading", "on"} : PollsReading(e))
    BY <1>a, <2>1 DEF HeadTypes, CountIsOfBlinks, Blink, LinkChanges, CountsAnewUnseen, ApiStarted,
       PollsOff, PollsBlink, PollsReading, CountedBlink
  <2>2. CASE \/ (\E e \in HeadEvents : WorkerWrites(e)) \/ WorkerReady \/ WorkerFails \/ WorkerObeys
             \/ Activates \/ UNCHANGED headVars
    BY <1>a, <2>2 DEF CountIsOfBlinks, WorkerWrites, WorkerReady, WorkerFails, WorkerObeys,
       Activates, headVars
  <2>3. CASE StartReads \/ NextFrame
    BY <2>3 DEF CountIsOfBlinks, StartReads, NextFrame
  <2>4. CASE \/ HeadStarts \/ StartFails \/ EventsEnd \/ HeadCloses \/ TellsWorker \/ WorkerEnded
             \/ WaitTimesOut
    BY <2>4 DEF CountIsOfBlinks, HeadStarts, StartFails, EventsEnd, HeadCloses, TellsWorker,
       WorkerEnded, WaitTimesOut
  <2> QED BY <2>1, <2>2, <2>3, <2>4 DEF HeadNext
<1>3. ~phantom'
  BY <1>a DEF HeadTypes, CountIsOfBlinks, HeadNext, headVars, Blink, LinkChanges, CountsAnewUnseen,
     WorkerWrites, WorkerReady, WorkerFails, WorkerObeys, HeadStarts, ApiStarted, StartReads,
     StartFails, Activates, PollsOff, PollsBlink, PollsReading, NextFrame, EventsEnd, HeadCloses,
     TellsWorker, WorkerEnded, WaitTimesOut
<1> QED BY <1>1, <1>2, <1>3

LEMMA HeadWordStep == HeadInv /\ [HeadNext]_headVars => LastWord'
<1> SUFFICES ASSUME HeadInv, [HeadNext]_headVars PROVE LastWord'
  OBVIOUS
<1> USE DEF headsetVars, workerVars, bridgeVars
<1>a. HeadTypes /\ LastWord BY DEF HeadInv
<1>1. CASE NextFrame
  <2> DEFINE e == Head(pending \o pipe)
  <2>1. /\ handled' = Append(handled, e) /\ believed' = (e = "on" \/ (believed /\ e # "off"))
        /\ head' = "up" /\ source' = "worker" /\ head = "up"
    BY <1>1 DEF NextFrame, TakesEvent
  <2>2. e \in HeadEvents BY <1>1, NextIsWritten
  <2> HIDE DEF e
  <2>3. /\ Len(handled') = Len(handled) + 1 /\ Len(handled) \in Nat
        /\ \A i \in 1..Len(handled) : handled'[i] = handled[i]
        /\ handled'[Len(handled) + 1] = e
    BY <1>a, <2>1, <2>2, AppendProperties, LenProperties DEF HeadTypes
  <2>4. ASSUME believed', NEW i \in 1..Len(handled'), handled'[i] = "off"
        PROVE  \E j \in 1..Len(handled') : j > i /\ handled'[j] = "on"
    <3>1. e # "off" BY <2>1, <2>4
    <3>2. i \in 1..Len(handled) /\ handled[i] = "off" BY <2>3, <2>4, <3>1
    <3>3. CASE e = "on"
      <4>1. Len(handled) + 1 \in 1..Len(handled') /\ Len(handled) + 1 > i BY <2>3, <3>2
      <4> QED BY <2>3, <3>3, <4>1
    <3>4. CASE e # "on"
      <4>1. PICK j \in 1..Len(handled) : j > i /\ handled[j] = "on"
        BY <1>a, <2>1, <2>4, <3>2, <3>4 DEF LastWord
      <4> QED BY <2>3, <4>1
    <3> QED BY <3>3, <3>4
  <2> QED BY <2>1, <2>4 DEF LastWord
<1>2. CASE \/ HeadStarts \/ ApiStarted \/ StartReads
  BY <1>a, <1>2, EmptySeq DEF LastWord, HeadStarts, ApiStarted, StartReads
<1>3. CASE PollsOff \/ PollsBlink \/ (\E e \in {"reading", "on"} : PollsReading(e))
  <2>1. source = "api" /\ head = "up" /\ linked /\ UNCHANGED <<source, head, handled>>
    BY <1>3 DEF PollsOff, PollsBlink, PollsReading
  <2>2. handled = <<>> /\ handled' = <<>> BY <1>a, <2>1 DEF LastWord
  <2>3. believed' => linked'
    <3>1. CASE PollsOff BY <3>1 DEF PollsOff, TakesEvent
    <3>2. CASE PollsBlink \/ (\E e \in {"reading", "on"} : PollsReading(e))
      <4>1. linked' = linked BY <3>2 DEF PollsBlink, PollsReading
      <4> QED BY <2>1, <4>1
    <3> QED BY <1>3, <3>1, <3>2
  <2> QED BY <2>1, <2>2, <2>3, EmptySeq DEF LastWord
<1>4. CASE \/ Blink \/ LinkChanges \/ CountsAnewUnseen \/ (\E e \in HeadEvents : WorkerWrites(e))
           \/ WorkerReady \/ WorkerFails \/ WorkerObeys \/ Activates \/ UNCHANGED headVars
  <2>1. UNCHANGED <<source, head, handled, believed, linked>>
    BY <1>4 DEF Blink, LinkChanges, CountsAnewUnseen, WorkerWrites, WorkerReady, WorkerFails,
       WorkerObeys, Activates, headVars
  <2> QED BY <1>a, <2>1 DEF LastWord
<1>5. CASE StartFails \/ EventsEnd \/ HeadCloses \/ TellsWorker \/ WorkerEnded \/ WaitTimesOut
  BY <1>5 DEF LastWord, StartFails, EventsEnd, HeadCloses, TellsWorker, WorkerEnded, WaitTimesOut
<1> QED BY <1>1, <1>2, <1>3, <1>4, <1>5 DEF HeadNext

LEMMA HeadOrderStep == HeadInv /\ [HeadNext]_headVars => InOrder'
<1> SUFFICES ASSUME HeadInv, [HeadNext]_headVars, source' = "worker", head' \in {"starting", "up"}
             PROVE  InOrder'
  BY DEF InOrder
<1> USE DEF headsetVars, workerVars, bridgeVars
<1>a. HeadTypes /\ InOrder /\ LastWord /\ WorkersEnd BY DEF HeadInv
<1>b. /\ pipe \in Seq(Frame) /\ pending \in Seq(HeadEvents) /\ handled \in Seq(HeadEvents)
      /\ written \in Seq(HeadEvents) /\ Len(handled) + Len(pending) \in Nat
  BY <1>a, LenProperties DEF HeadTypes
<1>c. PICK n \in Nat : n = Len(handled) + Len(pending) BY <1>b
<1>d. ASSUME source = "worker", head \in {"starting", "up"}
      PROVE  /\ ReadInOrder(handled, pending, written)
             /\ \E r \in 0..Len(pipe) :
                  /\ FramesTell(n, pipe, written, r)
                  /\ r # 0 => worker \in {"serving", "gone"} /\ head = "starting"
                  /\ r = 0 /\ head = "starting" => worker # "serving"
             /\ Ended(pipe) => worker = "gone"
             /\ worker # "none" /\ (head = "up" => worker # "connecting")
  BY <1>a, <1>c, <1>d DEF InOrder
<1>e. ASSUME NEW r, NEW m, m = Len(handled') + Len(pending'),
             ReadInOrder(handled', pending', written'), FramesTell(m, pipe', written', r),
             r # 0 => worker' \in {"serving", "gone"} /\ head' = "starting",
             r = 0 /\ head' = "starting" => worker' # "serving",
             Ended(pipe') => worker' = "gone",
             worker' # "none" /\ (head' = "up" => worker' # "connecting")
      PROVE  InOrder'
  <2>1. r \in 0..Len(pipe') BY <1>e DEF FramesTell
  <2> QED BY <1>e, <2>1 DEF InOrder
<1>1. ASSUME NEW e \in HeadEvents, WorkerWrites(e) PROVE InOrder'
  <2>1. /\ source = "worker" /\ head \in {"starting", "up"} /\ worker \in {"connecting", "serving"}
        /\ pipe' = Append(pipe, e) /\ written' = Append(written, e)
        /\ source' = source /\ worker' = worker /\ head' = head /\ pending' = pending
        /\ handled' = handled
    BY <1>1 DEF WorkerWrites
  <2>2. PICK r \in 0..Len(pipe) : /\ FramesTell(n, pipe, written, r)
                                  /\ r # 0 => worker \in {"serving", "gone"} /\ head = "starting"
                                  /\ r = 0 /\ head = "starting" => worker # "serving"
    BY <1>d, <2>1
  <2>3. ~Ended(pipe) BY <1>d, <2>1
  <2>4. FramesTell(n, pipe', written', r) /\ ~Ended(pipe') BY <1>b, <2>1, <2>2, <2>3, WrittenIsTold
  <2>5. ReadInOrder(handled', pending', written') BY <1>b, <1>d, <2>1, ReadingKeepsOrder
  <2>6. n = Len(handled') + Len(pending') BY <1>c, <2>1
  <2> QED BY <1>d, <1>e, <2>1, <2>2, <2>4, <2>5, <2>6
<1>2. CASE WorkerReady
  <2>1. /\ source = "worker" /\ worker = "connecting" /\ worker' = "serving"
        /\ pipe' = Append(pipe, "ready") /\ source' = source /\ head' = head
        /\ pending' = pending /\ handled' = handled /\ written' = written
    BY <1>2 DEF WorkerReady
  <2>2. head = "starting" BY <1>d, <2>1
  <2>3. FramesTell(n, pipe, written, 0) /\ ~Ended(pipe) BY <1>d, <2>1, <2>2
  <2>4. FramesTell(n, pipe', written', Len(pipe) + 1) /\ ~Ended(pipe')
    BY <1>b, <2>1, <2>3, ReadyIsTold
  <2>5. Len(pipe) + 1 # 0 BY <1>b, LenProperties
  <2>6. ReadInOrder(handled', pending', written') BY <1>d, <2>1, <2>2
  <2>7. n = Len(handled') + Len(pending') BY <1>c, <2>1
  <2> QED BY <1>e, <2>1, <2>2, <2>4, <2>5, <2>6, <2>7
<1>3. CASE WorkerFails
  <2>1. /\ source = "worker" /\ head \in {"starting", "up"} /\ worker \in {"connecting", "serving"}
        /\ worker' = "gone" /\ pipe' \in {pipe, Append(pipe, "fatal")}
        /\ source' = source /\ head' = head /\ pending' = pending /\ handled' = handled
        /\ written' = written
    BY <1>3 DEF WorkerFails
  <2>2. PICK r \in 0..Len(pipe) : /\ FramesTell(n, pipe, written, r)
                                  /\ r # 0 => head = "starting"
    BY <1>d, <2>1
  <2>3. ~Ended(pipe) BY <1>d, <2>1
  <2>4. FramesTell(n, Append(pipe, "fatal"), written, r) BY <1>b, <2>2, <2>3, FailureIsTold
  <2>5. FramesTell(n, pipe', written', r) BY <2>1, <2>2, <2>4
  <2>6. ReadInOrder(handled', pending', written') BY <1>d, <2>1
  <2>7. n = Len(handled') + Len(pending') BY <1>c, <2>1
  <2> QED BY <1>e, <2>1, <2>2, <2>5, <2>6, <2>7
<1>4. CASE WorkerObeys
  <2>1. /\ worker' = "gone" /\ worker = "serving" /\ source' = source /\ head' = head
        /\ pipe' = pipe /\ pending' = pending /\ handled' = handled /\ written' = written
    BY <1>4 DEF WorkerObeys
  <2>2. PICK r \in 0..Len(pipe) : /\ FramesTell(n, pipe, written, r)
                                  /\ r # 0 => head = "starting"
    BY <1>d, <2>1
  <2>3. ReadInOrder(handled', pending', written') BY <1>d, <2>1
  <2>4. n = Len(handled') + Len(pending') BY <1>c, <2>1
  <2> QED BY <1>e, <2>1, <2>2, <2>3, <2>4
<1>5. CASE HeadStarts
  <2>1. /\ worker' = "connecting" /\ pipe' = <<>> /\ pending' = <<>> /\ handled' = <<>>
        /\ written' = <<>> /\ head' = "starting"
    BY <1>5 DEF HeadStarts
  <2>2. Len(<<>>) = 0 BY EmptySeq
  <2>3. ReadInOrder(<<>>, <<>>, <<>>)
    <3>1. 0 + 0 <= 0 /\ \A i \in 1..0 : FALSE OBVIOUS
    <3> QED BY <2>2, <3>1 DEF ReadInOrder
  <2>4. ~Ended(<<>>) BY DEF Ended
  <2>5. FramesTell(0, <<>>, <<>>, 0)
    <3>1. 0 \in 0..0 /\ (\A i \in 1..0 : FALSE) /\ 0 = 0 + 0 - 0 - 0 OBVIOUS
    <3>2. Readies(0, Len(<<>>) + 1) = 0 BY DEF Readies
    <3> QED BY <2>2, <2>4, <3>1, <3>2 DEF FramesTell
  <2>6. Len(handled') + Len(pending') = 0 BY <2>1, <2>2
  <2> QED BY <1>e, <2>1, <2>3, <2>4, <2>5, <2>6
<1>6. CASE StartReads
  <2>1. /\ source = "worker" /\ head = "starting" /\ pipe # <<>> /\ pipe' = Tail(pipe)
        /\ source' = source /\ worker' = worker /\ handled' = handled /\ written' = written
        /\ IF Head(pipe) = "ready" THEN head' = "up" /\ pending' = pending
           ELSE pending' = KeepEarly(Head(pipe)) /\ head' = head
    BY <1>6 DEF StartReads
  <2>2. PICK r \in 0..Len(pipe) : /\ FramesTell(n, pipe, written, r)
                                  /\ r # 0 => worker \in {"serving", "gone"}
                                  /\ r = 0 => worker # "serving"
    BY <1>d, <2>1
  <2>3. /\ ReadInOrder(handled, pending, written) /\ worker # "none"
        /\ Ended(pipe) => worker = "gone"
    BY <1>d, <2>1
  <2>4. Head(pipe) \in Frame BY <1>b, <2>1, TailOfFrames
  <2>5. CASE Head(pipe) = "ready"
    <3>1. r = 1 /\ FramesTell(n, pipe', written', 0) /\ (Ended(pipe') <=> Ended(pipe))
      BY <1>b, <2>1, <2>2, <2>5, ReadyIsRead
    <3>2. head' = "up" /\ pending' = pending BY <2>1, <2>5
    <3>3. n = Len(handled') + Len(pending') BY <1>c, <2>1, <3>2
    <3>4. worker' \in {"serving", "gone"} BY <2>1, <2>2, <3>1
    <3> QED BY <1>e, <2>1, <2>3, <3>1, <3>2, <3>3, <3>4
  <2>6. CASE Head(pipe) = "fatal"
    <3>1. r = 0 /\ Ended(pipe) /\ FramesTell(n, pipe', written', 0) /\ ~Ended(pipe')
      BY <1>b, <2>1, <2>2, <2>6, FailureIsRead
    <3>2. head' = "starting" /\ pending' = pending BY <2>1, <2>6 DEF KeepEarly, HeadEvents
    <3>3. n = Len(handled') + Len(pending') BY <1>c, <2>1, <3>2
    <3> QED BY <1>e, <2>1, <2>3, <3>1, <3>2, <3>3
  <2>7. CASE Head(pipe) \in HeadEvents
    <3>1. PICK s : s = IF r = 0 THEN 0 ELSE r - 1 OBVIOUS
    <3>2. /\ Head(pipe) = written[n + 1] /\ n + 1 <= Len(written) /\ r # 1
          /\ FramesTell(n + 1, pipe', written', s)
          /\ Ended(pipe') <=> Ended(pipe)
      BY <1>b, <2>1, <2>2, <2>7, <3>1, EventIsRead
    <3>3. head' = "starting" /\ pending' = Append(pending, Head(pipe))
      BY <2>1, <2>7 DEF KeepEarly, HeadEvents
    <3>4. /\ ReadInOrder(handled', pending', written')
          /\ n + 1 = Len(handled') + Len(pending')
      BY <1>b, <1>c, <2>1, <2>3, <2>7, <3>2, <3>3, ReadingKeepsOrder
    <3>5. s = 0 <=> r = 0 BY <3>1, <3>2
    <3> QED BY <1>e, <2>1, <2>2, <2>3, <3>2, <3>3, <3>4, <3>5
  <2> QED BY <2>4, <2>5, <2>6, <2>7 DEF Frame
<1>7. CASE NextFrame
  <2>1. /\ source = "worker" /\ head = "up" /\ source' = source /\ worker' = worker
        /\ head' = head /\ written' = written
        /\ IF pending # <<>> THEN pending' = Tail(pending) /\ pipe' = pipe
           ELSE pipe' = Tail(pipe) /\ pending' = pending
    BY <1>7 DEF NextFrame
  <2>2. FramesTell(n, pipe, written, 0) BY <1>d, <2>1
  <2>3. /\ ReadInOrder(handled, pending, written) /\ worker \notin {"none", "connecting"}
        /\ Ended(pipe) => worker = "gone"
    BY <1>d, <2>1
  <2>4. PICK e \in HeadEvents : /\ handled' = Append(handled, e)
                                /\ pending = <<>> => pipe # <<>> /\ e = Head(pipe)
                                /\ pending # <<>> => e = Head(pending)
    BY <1>7, NextIsWritten
  <2>5. CASE pending # <<>>
    <3>1. /\ e = Head(pending) /\ handled' = Append(handled, e) /\ pending' = Tail(pending)
          /\ written' = written /\ pipe' = pipe
      BY <2>1, <2>4, <2>5
    <3>2. /\ ReadInOrder(Append(handled, Head(pending)), Tail(pending), written)
          /\ Len(Append(handled, Head(pending))) + Len(Tail(pending)) = Len(handled) + Len(pending)
      BY <1>b, <2>3, <2>5, EarlyIsTaken
    <3>3. /\ ReadInOrder(handled', pending', written')
          /\ n = Len(handled') + Len(pending')
      BY <1>c, <2>4, <3>1, <3>2
    <3> QED BY <1>e, <2>1, <2>2, <2>3, <3>1, <3>3
  <2>6. CASE pending = <<>>
    <3>1. /\ e = Head(pipe) /\ pipe # <<>> /\ Head(pipe) \in HeadEvents
          /\ handled' = Append(handled, e) /\ pending' = pending /\ written' = written
          /\ pipe' = Tail(pipe)
      BY <2>1, <2>4, <2>6
    <3>2. PICK s : s = IF 0 = 0 THEN 0 ELSE 0 - 1 OBVIOUS
    <3>3. /\ Head(pipe) = written[n + 1] /\ n + 1 <= Len(written)
          /\ FramesTell(n + 1, Tail(pipe), written, s) /\ (Ended(Tail(pipe)) <=> Ended(pipe))
      BY <1>b, <2>2, <3>1, <3>2, EventIsRead
    <3>4. /\ ReadInOrder(Append(handled, e), pending, written)
          /\ Len(Append(handled, e)) + Len(pending) = Len(handled) + Len(pending) + 1
      <4>1. Len(handled) + Len(pending) + 1 <= Len(written)
            /\ e = written[Len(handled) + Len(pending) + 1]
        BY <1>c, <3>1, <3>3
      <4>2. handled \in Seq(HeadEvents) /\ pending \in Seq(HeadEvents) /\ written \in Seq(HeadEvents)
        BY <1>b
      <4> QED BY <2>3, <2>4, <2>6, <4>1, <4>2, NextIsHandled
    <3>5. /\ ReadInOrder(handled', pending', written') /\ s = 0
          /\ n + 1 = Len(handled') + Len(pending') /\ FramesTell(n + 1, pipe', written', s)
      BY <1>c, <3>1, <3>2, <3>3, <3>4
    <3> QED BY <1>e, <2>1, <2>3, <3>1, <3>3, <3>5
  <2> QED BY <2>5, <2>6
<1>8. CASE \/ Blink \/ LinkChanges \/ CountsAnewUnseen \/ Activates \/ UNCHANGED headVars
  <2>1. UNCHANGED <<source, head, worker, pipe, pending, handled, written>>
    BY <1>8 DEF Blink, LinkChanges, CountsAnewUnseen, Activates, headVars
  <2> QED BY <1>a, <2>1 DEF InOrder
<1>9. CASE \/ ApiStarted \/ PollsOff \/ PollsBlink
           \/ (\E e \in {"reading", "on"} : PollsReading(e))
  BY <1>9 DEF ApiStarted, PollsOff, PollsBlink, PollsReading
<1>10. CASE StartFails \/ EventsEnd \/ HeadCloses \/ TellsWorker \/ WorkerEnded \/ WaitTimesOut
  BY <1>10 DEF StartFails, EventsEnd, HeadCloses, TellsWorker, WorkerEnded, WaitTimesOut
<1> QED BY <1>1, <1>2, <1>3, <1>4, <1>5, <1>6, <1>7, <1>8, <1>9, <1>10 DEF HeadNext

LEMMA HeadInvInit == HeadInit => HeadInv
<1> SUFFICES ASSUME HeadInit PROVE HeadInv
  OBVIOUS
<1>1. HeadTypes BY HeadsetAssumption, EmptySeq DEF HeadInit, HeadTypes
<1>2. HeadBits /\ WorkersEnd /\ CountIsOfBlinks /\ ~phantom /\ InOrder /\ LastWord
  BY DEF HeadInit, HeadBits, WorkersEnd, CountIsOfBlinks, InOrder, LastWord
<1> QED BY <1>1, <1>2 DEF HeadInv

LEMMA HeadInvStep == HeadInv /\ [HeadNext]_headVars => HeadInv'
BY HeadBitsStep, HeadTypesStep, HeadSmallStep, HeadOrderStep, HeadWordStep DEF HeadInv

LEMMA HeadInvInOrder == HeadInv => EventsInOrder
<1> SUFFICES ASSUME HeadInv, head = "up", source = "worker"
             PROVE  handled \o pending \o pipe \in {written, Append(written, "fatal")}
  BY DEF EventsInOrder
<1>1. /\ handled \in Seq(Frame) /\ pending \in Seq(Frame) /\ pipe \in Seq(Frame)
      /\ written \in Seq(Frame)
  BY SeqMonotonic DEF HeadInv, HeadTypes, Frame
<1>2. /\ FramesTell(Len(handled) + Len(pending), pipe, written, 0)
      /\ ReadInOrder(handled, pending, written)
  BY DEF HeadInv, InOrder
<1> QED BY <1>1, <1>2, AllIsTold

(* Every event of a worker is taken once and in order, a blink that is      *)
(* reported was made, no worker outlives its bridge, and a bridge whose     *)
(* last word of the headset is that it is off never says that it is healthy *)
(* (the start, next_event and close of the two backends, and the bridge's   *)
(* events task).                                                            *)
THEOREM HeadsetSafety ==
    HeadSpec => [](/\ HeadTypeOK /\ EventsInOrder /\ BlinksAreReal
                   /\ NoWorkerLeft /\ OffIsUnhealthy)
<1>1. ASSUME HeadInv PROVE HeadTypeOK
  <2>1. {linked, believed, headError, activated, shutdown} \subseteq BOOLEAN
    BY <1>1, Zenon DEF HeadInv, HeadBits
  <2> QED BY <1>1, <2>1 DEF HeadInv, HeadTypes, HeadBits, HeadTypeOK, Frame
<1>2. HeadInv => BlinksAreReal /\ NoWorkerLeft
  BY DEF HeadInv, BlinksAreReal, WorkersEnd, NoWorkerLeft
<1>3. ASSUME HeadInv PROVE OffIsUnhealthy
  <2>1. DOMAIN handled = 1..Len(handled) BY <1>3, LenProperties DEF HeadInv, HeadTypes
  <2> QED BY <1>3, <2>1 DEF HeadInv, LastWord, OffIsUnhealthy, HeadHealthy
<1> QED BY HeadInvInit, HeadInvStep, HeadInvInOrder, <1>1, <1>2, <1>3, PTL DEF HeadSpec
=============================================================================
