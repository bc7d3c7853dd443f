------------------------- MODULE DeviceLanesProofs -------------------------
(***************************************************************************)
(* What DeviceLanes promises for every set of devices and commands, every  *)
(* ranking and every depth of the heap.                                    *)
(***************************************************************************)
EXTENDS LaneOrder, TLAPS

(* The lane of a device, its lock and its count agree with where the tasks  *)
(* are.                                                                     *)
InsideIsCounted ==
  \A c \in Command : pc[c] \in Inside =>
    mine[c] \in Lane /\ lanes[Target[c]] = mine[c] /\ c \in users[mine[c]]

CountedIsInside ==
  \A l \in Lane : \A c \in users[l] : pc[c] \in Inside /\ mine[c] = l

HolderIsKnown == \A c \in Command : pc[c] \in Holding => holder[mine[c]] = c

HolderIsHolding ==
  \A l \in Lane : holder[l] # None => pc[holder[l]] \in Holding /\ mine[holder[l]] = l

LaneOfItsDevice ==
  \A d \in Device : lanes[d] # None => Target[lanes[d]] = d /\ users[lanes[d]] # {}

FreshLane == \A c \in Command : pc[c] = "idle" => users[c] = {} /\ holder[c] = None

LaneInv ==
  /\ InsideIsCounted /\ CountedIsInside /\ HolderIsKnown /\ HolderIsHolding
  /\ LaneOfItsDevice /\ FreshLane

(* Where an unanswered command is. *)
WorkingHasItem ==
  \A t \in Command :
    /\ pc[t] \in Working => item[t] \in Command /\ Target[item[t]] = Target[t]
    /\ item[t] # None => pc[t] \in Working

UnansweredIsSomewhere ==
  \A c \in Command : pc[c] # "idle" /\ answer[c] = None
    => c \in queue \/ \E t \in Command : item[t] = c

QueuedIsUnanswered ==
  /\ \A c \in queue : answer[c] = None /\ pc[c] # "idle"
  /\ \A c \in Command : pc[c] = "idle" => answer[c] = None

ItemIsUnanswered ==
  \A t \in Command : item[t] # None =>
    /\ answer[item[t]] = None /\ item[t] \notin queue /\ pc[item[t]] # "idle"
    /\ \A u \in Command : item[u] = item[t] => u = t

AnswerInv ==
  /\ WorkingHasItem /\ UnansweredIsSomewhere /\ QueuedIsUnanswered
  /\ ItemIsUnanswered /\ AnsweredOnReturn

Inv == LaneTypeOK /\ LaneInv /\ AnswerInv

(* The tickets of the queued commands are those given out, and tell the     *)
(* order of arrival.                                                        *)
TicketsAreOld == \A c \in queue : ticket[c] < pushed

AheadIsKnown ==
  /\ ahead \in [Command -> SUBSET Command]
  /\ \A c \in Command : \A o \in ahead[c] :
       o # c /\ Target[o] = Target[c] /\ pc[o] # "idle" /\ pc[c] # "idle"

TicketsTellOrder ==
  \A c \in queue : \A o \in ahead[c] : o \in queue => ticket[o] < ticket[c]

OrderInv ==
  /\ Inv /\ TicketsAreOld /\ AheadIsKnown /\ TicketsTellOrder /\ NeverOvertaken
-----------------------------------------------------------------------------
(* Every variable keeps its type through every step of submit and _drain.   *)
LEMMA TypeInit == LaneInit => LaneTypeOK
BY LanesAssumption DEF LaneInit, LaneTypeOK, Inside

LEMMA TypeStep == LaneTypeOK /\ [LaneNext]_laneVars => LaneTypeOK'
<1> SUFFICES ASSUME LaneTypeOK, [LaneNext]_laneVars PROVE LaneTypeOK'
  OBVIOUS
<1> USE LanesAssumption DEF LaneTypeOK, Lane, Inside
<1>1. ASSUME NEW c \in Command, Shed(c) PROVE LaneTypeOK'
  BY <1>1 DEF Shed, Answered, Answers
<1>2. ASSUME NEW c \in Command, Submit(c) PROVE LaneTypeOK'
  <2>1. LaneFor(c) \in Command BY DEF LaneFor
  <2>2. /\ queue' \in SUBSET Command /\ ticket' \in [Command -> Nat] /\ pushed' \in Nat
        /\ lanes' \in [Device -> Command \cup {None}] /\ mine' \in [Command -> Command \cup {None}]
        /\ users' \in [Command -> SUBSET Command]
    BY <1>2, <2>1 DEF Submit
  <2>3. holder' \in [Command -> Command \cup {None}] /\ cpu' \in Command \cup {None}
    BY <1>2, <2>1 DEF Submit
  <2>4. pc' \in [Command -> Inside \cup {"idle", "returned", "aborted"}]
    BY <1>2 DEF Submit
  <2> QED BY <1>2, <2>2, <2>3, <2>4 DEF Submit
<1>3. ASSUME NEW c \in Command, Grant(c) PROVE LaneTypeOK'
  BY <1>3 DEF Grant
<1>4. ASSUME NEW c \in Command, NEW i \in Command, Pop(c, i) PROVE LaneTypeOK'
  BY <1>4 DEF Pop
<1>5. ASSUME NEW c \in Command, NEW code \in Denials, Deny(c, code) PROVE LaneTypeOK'
  BY <1>5 DEF Deny, Answered, Answers
<1>6. ASSUME NEW c \in Command, Execute(c) PROVE LaneTypeOK'
  BY <1>6 DEF Execute
<1>7. ASSUME NEW c \in Command, NEW outcome \in {"accepted", "refused", "error"},
             Finish(c, outcome)
      PROVE  LaneTypeOK'
  BY <1>7 DEF Finish, Answered, Answers
<1>8. ASSUME NEW c \in Command, NEW d \in Device, StopPeer(c, d) PROVE LaneTypeOK'
  BY <1>8 DEF StopPeer, Discard, Answered, Answers
<1>9. ASSUME NEW c \in Command, Leave(c) PROVE LaneTypeOK'
  BY <1>9 DEF Leave, Uncount
<1>10. ASSUME NEW c \in Command, CancelWaiting(c) PROVE LaneTypeOK'
  BY <1>10 DEF CancelWaiting, Uncount
<1>11. ASSUME NEW c \in Command, CancelWorking(c) PROVE LaneTypeOK'
  BY <1>11 DEF CancelWorking, Uncount, Answered, Answers
<1>12. ASSUME NEW ds \in Scopes, ClearQueue(ds) PROVE LaneTypeOK'
  BY <1>12 DEF ClearQueue, Discard, Answered, Answers
<1>13. ASSUME UNCHANGED laneVars PROVE LaneTypeOK'
  BY <1>13 DEF laneVars
<1> QED
  BY <1>1, <1>2, <1>3, <1>4, <1>5, <1>6, <1>7, <1>8, <1>9, <1>10, <1>11, <1>12, <1>13
  DEF LaneNext, LaneStep, Quiescent

(* The lanes, their locks and their counts stay in step with the tasks: the *)
(* count taken before the lock is awaited keeps a lane registered while     *)
(* anybody is queued behind it.                                             *)
LEMMA LaneInvInit == LaneInit => LaneInv
BY LanesAssumption
DEF LaneInit, LaneInv, InsideIsCounted, CountedIsInside, HolderIsKnown, HolderIsHolding,
    LaneOfItsDevice, FreshLane, Inside, Holding, Lane

LEMMA LaneInvStep == LaneTypeOK /\ LaneInv /\ [LaneNext]_laneVars => LaneInv'
<1> SUFFICES ASSUME LaneTypeOK, LaneInv, [LaneNext]_laneVars PROVE LaneInv'
  OBVIOUS
<1> USE LanesAssumption
    DEF LaneTypeOK, LaneInv, InsideIsCounted, CountedIsInside, HolderIsKnown,
        HolderIsHolding, LaneOfItsDevice, FreshLane, Lane, Inside, Holding
<1>1. ASSUME NEW c \in Command, Shed(c) PROVE LaneInv'
  BY <1>1 DEF Shed
<1>2. ASSUME NEW c \in Command, Submit(c) PROVE LaneInv'
  <2> DEFINE l == LaneFor(c)
  <2>1. l \in Command /\ Target[l] = Target[c] BY DEF LaneFor
  <2>2. \A m \in Command : m # l => users'[m] = users[m] /\ holder'[m] = holder[m]
    BY <1>2, <2>1 DEF Submit
  <2>3. users'[l] = users[l] \cup {c} /\ lanes'[Target[c]] = l /\ mine'[c] = l
    BY <1>2, <2>1 DEF Submit
  <2>4. \A o \in Command : o # c => mine'[o] = mine[o] /\ pc'[o] = pc[o]
    BY <1>2 DEF Submit
  <2>5. \A d \in Device : d # Target[c] => lanes'[d] = lanes[d]
    BY <1>2 DEF Submit
  <2>6. \/ holder[l] = None /\ holder'[l] = c /\ pc'[c] = "drain"
        \/ holder'[l] = holder[l] /\ pc'[c] = "lock"
    BY <1>2, <2>1 DEF Submit, LockFree
  <2>7. lanes[Target[c]] # None => l = lanes[Target[c]]
    BY DEF LaneFor
  <2>8. lanes[Target[c]] = None => l = c
    BY DEF LaneFor
  <2>9. pc[c] = "idle" /\ users[c] = {} /\ holder[c] = None
    BY <1>2 DEF Submit
  <2>10. InsideIsCounted'
    BY <2>1, <2>2, <2>3, <2>4, <2>5, <2>6, <2>7, <2>8, <2>9
  <2>11. CountedIsInside'
    BY <2>1, <2>2, <2>3, <2>4, <2>6, <2>9
  <2>12. HolderIsKnown' /\ HolderIsHolding'
    BY <2>1, <2>2, <2>3, <2>4, <2>6, <2>9
  <2>13. LaneOfItsDevice'
    <3> SUFFICES ASSUME NEW d \in Device, lanes'[d] # None
                 PROVE  Target[lanes'[d]] = d /\ users'[lanes'[d]] # {}
      OBVIOUS
    <3>1. CASE d = Target[c]
      BY <3>1, <2>1, <2>3
    <3>2. CASE d # Target[c]
      <4>1. lanes'[d] = lanes[d] /\ lanes[d] \in Command
        BY <3>2, <2>5
      <4>2. Target[lanes[d]] = d /\ users[lanes[d]] # {}
        BY <4>1
      <4> QED BY <4>1, <4>2, <3>2, <2>1, <2>2
    <3> QED BY <3>1, <3>2
  <2>14. FreshLane'
    BY <2>1, <2>2, <2>4, <2>6, <2>8, <2>7, <2>9
  <2> QED BY <2>10, <2>11, <2>12, <2>13, <2>14
<1>3. ASSUME NEW c \in Command, Grant(c) PROVE LaneInv'
  BY <1>3 DEF Grant
<1>4. ASSUME NEW c \in Command, NEW i \in Command, Pop(c, i) PROVE LaneInv'
  BY <1>4 DEF Pop
<1>5. ASSUME NEW c \in Command, NEW code \in Denials, Deny(c, code) PROVE LaneInv'
  BY <1>5 DEF Deny
<1>6. ASSUME NEW c \in Command, Execute(c) PROVE LaneInv'
  BY <1>6 DEF Execute
<1>7. ASSUME NEW c \in Command, NEW outcome \in {"accepted", "refused", "error"},
             Finish(c, outcome)
      PROVE  LaneInv'
  BY <1>7 DEF Finish
<1>8. ASSUME NEW c \in Command, NEW d \in Device, StopPeer(c, d) PROVE LaneInv'
  BY <1>8 DEF StopPeer
<1>9. ASSUME NEW c \in Command, Leave(c) PROVE LaneInv'
  BY <1>9 DEF Leave, Uncount
<1>10. ASSUME NEW c \in Command, CancelWaiting(c) PROVE LaneInv'
  BY <1>10 DEF CancelWaiting, Uncount
<1>11. ASSUME NEW c \in Command, CancelWorking(c) PROVE LaneInv'
  BY <1>11 DEF CancelWorking, Uncount
<1>12. ASSUME NEW ds \in Scopes, ClearQueue(ds) PROVE LaneInv'
  BY <1>12 DEF ClearQueue
<1>13. ASSUME UNCHANGED laneVars PROVE LaneInv'
  BY <1>13 DEF laneVars
<1> HIDE DEF LaneTypeOK, LaneInv
<1> QED
  BY <1>1, <1>2, <1>3, <1>4, <1>5, <1>6, <1>7, <1>8, <1>9, <1>10, <1>11, <1>12, <1>13
  DEF LaneNext, LaneStep, Quiescent

(* A task leaves its lane only when every command of its device that was    *)
(* submitted and not answered is gone from the heap and in no task's hands. *)
LEMMA OwnItemOnly ==
  ASSUME LaneTypeOK, LaneInv, WorkingHasItem,
         NEW c \in Command, pc[c] = "drain",
         NEW t \in Command, item[t] = c
  PROVE  FALSE
<1>1. pc[t] \in Working /\ Target[t] = Target[c]
  BY LanesAssumption DEF WorkingHasItem, LaneTypeOK
<1>2. mine[t] = lanes[Target[c]] /\ mine[c] = lanes[Target[c]]
  BY <1>1 DEF LaneInv, InsideIsCounted, Inside, Working
<1>3. holder[mine[t]] = t /\ holder[mine[c]] = c
  BY <1>1 DEF LaneInv, HolderIsKnown, Holding, Working
<1> QED BY <1>1, <1>2, <1>3 DEF Working

(* Each step keeps track of every unanswered command.                       *)
LEMMA AnswerInvStep ==
  LaneTypeOK /\ LaneInv /\ AnswerInv /\ [LaneNext]_laneVars => AnswerInv'
<1> SUFFICES ASSUME LaneTypeOK, LaneInv, AnswerInv, [LaneNext]_laneVars
             PROVE  AnswerInv'
  OBVIOUS
<1> USE LanesAssumption
    DEF LaneTypeOK, AnswerInv, WorkingHasItem, UnansweredIsSomewhere, QueuedIsUnanswered,
        ItemIsUnanswered, AnsweredOnReturn, Working, Inside, Answers
<1>1. ASSUME NEW c \in Command, Shed(c) PROVE AnswerInv'
  BY <1>1 DEF Shed, Answered
<1>2. ASSUME NEW c \in Command, Submit(c) PROVE AnswerInv'
  <2>1. queue' = queue \cup {c} /\ item' = item /\ answer' = answer
    BY <1>2 DEF Submit
  <2>2. \A t \in Command : t # c => pc'[t] = pc[t]
    BY <1>2 DEF Submit
  <2>3. pc[c] = "idle" /\ pc'[c] \in {"drain", "lock"}
    BY <1>2 DEF Submit
  <2>4. item[c] = None /\ \A t \in Command : item[t] # c
    BY <2>3
  <2>5. answer[c] = None
    BY <2>3
  <2>6. WorkingHasItem' /\ QueuedIsUnanswered' /\ AnsweredOnReturn'
    BY <2>1, <2>2, <2>3, <2>4, <2>5
  <2>7. UnansweredIsSomewhere'
    BY <2>1, <2>2, <2>3
  <2>8. ItemIsUnanswered'
    BY <2>1, <2>2, <2>3, <2>4
  <2> HIDE DEF WorkingHasItem, UnansweredIsSomewhere, QueuedIsUnanswered,
               ItemIsUnanswered, AnsweredOnReturn
  <2> QED BY <2>6, <2>7, <2>8
<1>3. ASSUME NEW c \in Command, Grant(c) PROVE AnswerInv'
  BY <1>3 DEF Grant
<1>4. ASSUME NEW c \in Command, NEW i \in Command, Pop(c, i) PROVE AnswerInv'
  <2>1. item'[c] = i /\ i \in queue /\ Target[i] = Target[c] /\ pc'[c] = "gate"
    BY <1>4 DEF Pop, QueuedFor
  <2>2. \A t \in Command : t # c => item'[t] = item[t] /\ pc'[t] = pc[t]
    BY <1>4 DEF Pop
  <2>3. queue' = queue \ {i} /\ answer' = answer
    BY <1>4 DEF Pop
  <2>4. item[c] = None /\ \A t \in Command : item[t] # i
    BY <1>4, <2>1 DEF Pop
  <2>5. WorkingHasItem' /\ QueuedIsUnanswered' /\ AnsweredOnReturn'
    BY <1>4, <2>1, <2>2, <2>3
  <2>6. UnansweredIsSomewhere'
    <3> SUFFICES ASSUME NEW x \in Command, pc'[x] # "idle", answer'[x] = None
                 PROVE  x \in queue' \/ \E t \in Command : item'[t] = x
      OBVIOUS
    <3>1. CASE x = i
      BY <3>1, <2>1
    <3>2. CASE x # i
      <4>1. x \in queue \/ \E t \in Command : item[t] = x
        BY <1>4, <2>2, <2>3 DEF Pop
      <4>2. ASSUME NEW t \in Command, item[t] = x PROVE item'[t] = x
        BY <4>2, <2>2, <2>4
      <4> QED BY <3>2, <4>1, <4>2, <2>3
    <3> QED BY <3>1, <3>2
  <2>7. ItemIsUnanswered'
    BY <1>4, <2>1, <2>2, <2>3, <2>4
  <2> HIDE DEF WorkingHasItem, UnansweredIsSomewhere, QueuedIsUnanswered,
               ItemIsUnanswered, AnsweredOnReturn
  <2> QED BY <2>5, <2>6, <2>7
<1>5. ASSUME NEW c \in Command, NEW code \in Denials, Deny(c, code) PROVE AnswerInv'
  BY <1>5 DEF Deny, Answered
<1>6. ASSUME NEW c \in Command, Execute(c) PROVE AnswerInv'
  BY <1>6 DEF Execute
<1>7. ASSUME NEW c \in Command, NEW outcome \in {"accepted", "refused", "error"},
             Finish(c, outcome)
      PROVE  AnswerInv'
  BY <1>7 DEF Finish, Answered
<1>8. ASSUME NEW c \in Command, NEW d \in Device, StopPeer(c, d) PROVE AnswerInv'
  BY <1>8 DEF StopPeer, Discard, Answered
<1>9. ASSUME NEW c \in Command, Leave(c) PROVE AnswerInv'
  <2>1. answer[c] # None
    BY <1>9, OwnItemOnly DEF Leave, QueuedFor
  <2> QED BY <1>9, <2>1 DEF Leave
<1>10. ASSUME NEW c \in Command, CancelWaiting(c) PROVE AnswerInv'
  BY <1>10 DEF CancelWaiting
<1>11. ASSUME NEW c \in Command, CancelWorking(c) PROVE AnswerInv'
  BY <1>11 DEF CancelWorking, Answered
<1>12. ASSUME NEW ds \in Scopes, ClearQueue(ds) PROVE AnswerInv'
  BY <1>12 DEF ClearQueue, Discard, Answered
<1>13. ASSUME UNCHANGED laneVars PROVE AnswerInv'
  BY <1>13 DEF laneVars
<1> HIDE DEF LaneTypeOK, AnswerInv
<1> QED
  BY <1>1, <1>2, <1>3, <1>4, <1>5, <1>6, <1>7, <1>8, <1>9, <1>10, <1>11, <1>12, <1>13
  DEF LaneNext, LaneStep, Quiescent

-----------------------------------------------------------------------------
(* Inv is inductive. *)
LEMMA InvInit == LaneInit => Inv
<1> SUFFICES ASSUME LaneInit PROVE Inv
  OBVIOUS
<1>1. LaneTypeOK /\ LaneInv
  BY TypeInit, LaneInvInit
<1>2. AnswerInv
  BY LanesAssumption
  DEF LaneInit, AnswerInv, WorkingHasItem, UnansweredIsSomewhere, QueuedIsUnanswered,
      ItemIsUnanswered, AnsweredOnReturn, Working
<1> QED BY <1>1, <1>2 DEF Inv

LEMMA InvStep == Inv /\ [LaneNext]_laneVars => Inv'
BY TypeStep, LaneInvStep, AnswerInvStep DEF Inv

LEMMA InvAlways == LaneSpec => []Inv
BY InvInit, InvStep, PTL DEF LaneSpec

(* The state of the queue, the lanes and the tasks keeps its type.          *)
THEOREM LaneTypeCorrect == LaneSpec => []LaneTypeOK
BY InvAlways, PTL DEF Inv

(* At most one command is on the way to one robot, however lanes are        *)
(* dropped, created again and cancelled.                                    *)
THEOREM OneCommandPerDeviceHolds == LaneSpec => []OneCommandPerDevice
<1>1. LaneTypeOK /\ LaneInv => OneCommandPerDevice
  BY DEF LaneTypeOK, LaneInv, InsideIsCounted, HolderIsKnown, OneCommandPerDevice, Working,
         Inside, Holding
<1> QED BY <1>1, InvAlways, PTL DEF Inv

(* A caller that gets through _drain finds its waiter resolved.             *)
THEOREM AnsweredOnReturnHolds == LaneSpec => []AnsweredOnReturn
BY InvAlways, PTL DEF Inv, AnswerInv

(* No command is left in the heap with nobody draining its device.          *)
THEOREM QueuedIsAttendedHolds == LaneSpec => []QueuedIsAttended
<1>1. LaneTypeOK /\ LaneInv /\ AnswerInv => QueuedIsAttended
  <2> SUFFICES ASSUME LaneTypeOK, LaneInv, AnswerInv, NEW c \in queue,
                      pc[c] # "aborted"
               PROVE  lanes[Target[c]] # None
    BY DEF QueuedIsAttended
  <2>1. c \in Command /\ answer[c] = None /\ pc[c] # "idle"
    BY DEF LaneTypeOK, AnswerInv, QueuedIsUnanswered
  <2>2. pc[c] \in Inside
    BY <2>1 DEF AnswerInv, AnsweredOnReturn, LaneTypeOK
  <2> QED BY <2>1, <2>2, LanesAssumption DEF LaneInv, InsideIsCounted, Lane
<1> QED BY <1>1, InvAlways, PTL DEF Inv

(* What was refused without running is in no task's hands.                  *)
THEOREM RefusedIsNotRunningHolds == LaneSpec => []RefusedIsNotRunning
<1>1. LaneTypeOK /\ AnswerInv => RefusedIsNotRunning
  BY LanesAssumption DEF LaneTypeOK, AnswerInv, ItemIsUnanswered, RefusedIsNotRunning
<1> QED BY <1>1, InvAlways, PTL DEF Inv

-----------------------------------------------------------------------------
(* Every step but a submission and a pop leaves the order alone: nothing    *)
(* new is queued and nothing new begins.                                    *)
Quiet ==
  /\ queue' \subseteq queue /\ pushed' = pushed
  /\ \A c \in queue' : ticket'[c] = ticket[c]
  /\ \A c \in Command : Begun(c)' => Begun(c)
  /\ \A c \in Command : pc[c] # "idle" => pc'[c] # "idle"

LEMMA QuietSteps ==
  ASSUME Inv, [LaneNext]_laneVars
  PROVE  \/ Quiet
         \/ \E c \in Command : Submit(c)
         \/ \E c, i \in Command : Pop(c, i)
<1> USE LanesAssumption DEF Inv, LaneTypeOK, Quiet, Begun
<1>1. ASSUME NEW c \in Command, Shed(c) PROVE Quiet
  BY <1>1 DEF Shed, Answered
<1>2. ASSUME NEW c \in Command,
             Grant(c) \/ Execute(c) \/ Leave(c) \/ CancelWaiting(c)
      PROVE  Quiet
  BY <1>2 DEF Grant, Execute, Leave, CancelWaiting
<1>3. ASSUME NEW c \in Command, NEW code \in Denials, Deny(c, code) PROVE Quiet
  BY <1>3 DEF Deny, Answered
<1>4. ASSUME NEW c \in Command, NEW outcome \in {"accepted", "refused", "error"},
             Finish(c, outcome)
      PROVE  Quiet
  BY <1>4 DEF Finish, Answered
<1>5. ASSUME NEW c \in Command, NEW d \in Device, StopPeer(c, d) PROVE Quiet
  BY <1>5 DEF StopPeer, Discard, Answered
<1>6. ASSUME NEW c \in Command, CancelWorking(c) PROVE Quiet
  BY <1>6 DEF CancelWorking, Answered
<1>7. ASSUME NEW ds \in Scopes, ClearQueue(ds) PROVE Quiet
  BY <1>7 DEF ClearQueue, Discard, Answered
<1>8. ASSUME UNCHANGED laneVars PROVE Quiet
  BY <1>8 DEF laneVars
<1> HIDE DEF Quiet, Inv
<1> QED
  BY <1>1, <1>2, <1>3, <1>4, <1>5, <1>6, <1>7, <1>8 DEF LaneNext, LaneStep, Quiescent

(* OrderInv is inductive: the counter outlives the heap and the lanes, so a *)
(* command's ticket is larger than those of all it finds waiting.           *)
LEMMA OrderInvInit == OrderInit => OrderInv
<1> SUFFICES ASSUME OrderInit PROVE OrderInv
  OBVIOUS
<1>1. Inv
  BY InvInit DEF OrderInit
<1>2. queue = {} /\ ahead = [c \in Command |-> {}]
  BY DEF OrderInit, LaneInit
<1> QED
  BY <1>1, <1>2 DEF OrderInv, TicketsAreOld, AheadIsKnown, TicketsTellOrder, NeverOvertaken

LEMMA OrderInvStep == OrderInv /\ [OrderNext]_orderVars => OrderInv'
<1> SUFFICES ASSUME OrderInv, [OrderNext]_orderVars PROVE OrderInv'
  OBVIOUS
<1>1. Inv /\ [LaneNext]_laneVars
  BY DEF OrderInv, OrderNext, orderVars
<1>2. Inv'
  BY <1>1, InvStep
<1>3. queue \subseteq Command /\ ticket \in [Command -> Nat] /\ pushed \in Nat
  BY <1>1 DEF Inv, LaneTypeOK
<1>4. ahead' = [c \in Command |->
                  IF c \in queue' \ queue THEN QueuedFor(Target[c]) ELSE ahead[c]]
  <2>1. CASE UNCHANGED orderVars
    BY <2>1 DEF orderVars, laneVars, OrderInv, AheadIsKnown
  <2> QED BY <2>1 DEF OrderNext
<1> DEFINE Order == TicketsAreOld /\ AheadIsKnown /\ TicketsTellOrder /\ NeverOvertaken
<1>5. Order
  BY DEF OrderInv
<1>6. ASSUME Quiet PROVE Order'
  <2>1. ahead' = ahead
    BY <1>4, <1>5, <1>6 DEF Quiet, AheadIsKnown
  <2> QED
    BY <1>3, <1>5, <1>6, <2>1
    DEF Quiet, TicketsAreOld, AheadIsKnown, TicketsTellOrder, NeverOvertaken
<1>7. ASSUME NEW c \in Command, Submit(c) PROVE Order'
  <2>1. /\ pc[c] = "idle" /\ c \notin queue /\ queue' = queue \cup {c}
        /\ ticket' = [ticket EXCEPT ![c] = pushed] /\ pushed' = pushed + 1
        /\ UNCHANGED <<item, answer>> /\ pc'[c] # "idle"
        /\ \A o \in Command \ {c} : pc'[o] = pc[o]
    BY <1>1, <1>7 DEF Submit, Inv, AnswerInv, QueuedIsUnanswered, LaneTypeOK
  <2>2. \A o \in Command : Begun(o)' <=> Begun(o)
    BY <2>1 DEF Begun
  <2>3. ~Begun(c) /\ \A o \in queue : ~Begun(o)
    BY <1>1, <1>3, <2>1, LanesAssumption
    DEF Begun, Inv, AnswerInv, QueuedIsUnanswered, ItemIsUnanswered, LaneTypeOK
  <2>4. ahead'[c] = QueuedFor(Target[c]) /\ \A o \in Command \ {c} : ahead'[o] = ahead[o]
    BY <1>4, <2>1
  <2>5. \A o \in Command : c \notin ahead[o]
    BY <1>5, <2>1 DEF AheadIsKnown
  <2>6. TicketsAreOld'
    BY <1>3, <1>5, <2>1 DEF TicketsAreOld
  <2>7. AheadIsKnown'
    <3>1. ahead' \in [Command -> SUBSET Command]
      BY <1>3, <1>4, <1>5 DEF AheadIsKnown, QueuedFor
    <3>2. \A o \in queue : o \in Command /\ o # c /\ pc[o] # "idle"
      BY <1>1, <1>3, <2>1 DEF Inv, AnswerInv, QueuedIsUnanswered
    <3> QED BY <1>5, <2>1, <2>4, <3>1, <3>2 DEF AheadIsKnown, QueuedFor
  <2>8. TicketsTellOrder'
    BY <1>3, <1>5, <2>1, <2>4, <2>5 DEF TicketsTellOrder, TicketsAreOld, QueuedFor
  <2>9. NeverOvertaken'
    <3> SUFFICES ASSUME NEW late \in Command, NEW early \in ahead'[late]
                 PROVE  /\ Begun(late)' /\ Priority[early] <= Priority[late]
                             => early \notin queue'
                        /\ Begun(early)' /\ Priority[late] < Priority[early]
                             => late \notin queue'
      BY DEF NeverOvertaken
    <3>1. CASE late = c
      BY <1>3, <2>2, <2>3, <2>4, <3>1 DEF QueuedFor
    <3>2. CASE late # c
      BY <1>5, <2>1, <2>2, <2>4, <2>5, <3>2 DEF NeverOvertaken, AheadIsKnown
    <3> QED BY <3>1, <3>2
  <2> QED BY <2>6, <2>7, <2>8, <2>9
<1>8. ASSUME NEW c \in Command, NEW i \in Command, Pop(c, i) PROVE Order'
  <2>1. /\ i \in queue /\ Target[i] = Target[c] /\ queue' = queue \ {i}
        /\ \A o \in queue \ {i} : Target[o] = Target[i] => Before(i, o)
        /\ UNCHANGED <<pushed, answer>> /\ \A o \in queue' : ticket'[o] = ticket[o]
        /\ \A o \in Command : pc[o] # "idle" => pc'[o] # "idle"
    BY <1>1, <1>3, <1>8 DEF Pop, QueuedFor, Inv, LaneTypeOK
  <2>2. ahead' = ahead
    BY <1>4, <1>5, <2>1 DEF AheadIsKnown
  <2>3. \A o \in Command \ {i} : Begun(o)' => Begun(o)
    BY <1>1, <1>8 DEF Pop, Begun, Inv, LaneTypeOK
  <2>4. TicketsAreOld' /\ AheadIsKnown' /\ TicketsTellOrder'
    BY <1>3, <1>5, <2>1, <2>2 DEF TicketsAreOld, AheadIsKnown, TicketsTellOrder
  <2>5. NeverOvertaken'
    <3> SUFFICES ASSUME NEW late \in Command, NEW early \in ahead[late]
                 PROVE  /\ Begun(late)' /\ Priority[early] <= Priority[late]
                             => early \notin queue'
                        /\ Begun(early)' /\ Priority[late] < Priority[early]
                             => late \notin queue'
      BY <2>2 DEF NeverOvertaken
    <3>1. early \in Command /\ early # late /\ Target[early] = Target[late]
      BY <1>5 DEF AheadIsKnown
    <3>2. CASE late = i
      BY <1>3, <1>5, <2>1, <2>3, <3>1, <3>2, LanesAssumption
      DEF NeverOvertaken, TicketsTellOrder, Before
    <3>3. CASE early = i
      BY <1>3, <1>5, <2>1, <2>3, <3>1, <3>3, LanesAssumption DEF NeverOvertaken, Before
    <3>4. CASE late # i /\ early # i
      BY <1>5, <2>1, <2>3, <3>1, <3>4 DEF NeverOvertaken
    <3> QED BY <3>2, <3>3, <3>4
  <2> QED BY <2>4, <2>5
<1> HIDE DEF Order
<1>9. Order'
  BY <1>1, <1>6, <1>7, <1>8, QuietSteps DEF Order
<1> QED BY <1>2, <1>9 DEF OrderInv, Order

(* A queued stop overtakes what waits and is never overtaken, and equals    *)
(* keep their order of arrival (FR-072).                                    *)
THEOREM NeverOvertakenHolds == OrderSpec => []NeverOvertaken
BY OrderInvInit, OrderInvStep, PTL DEF OrderSpec, OrderInv
=============================================================================
