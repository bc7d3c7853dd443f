---------------------------- MODULE GatewayProofs ----------------------------
(***************************************************************************)
(* What a tower knows of a plug gateway, for every set of threads that     *)
(* serve its tutors and without a bound on requests and failures; and what *)
(* the gateway keeps of its phones, for every set of phones, of requests   *)
(* and of events, and every limit; and what a run it answers has done to   *)
(* its group, for every set of plugs and any number of sessions.           *)
(***************************************************************************)
EXTENDS PlugGateways, UnlockAutomation, PlugGroup, FiniteSetTheorems, TLAPS

PowerRequests == [ask : PlugStates, number : Nat]
Outcomes == PlugStates \cup {"refused", "done", "failed"}

GatewayTypes ==
  /\ counter \in Nat /\ gatewayLast \in Nat /\ settled \in Nat
  /\ calls \in [Operators -> [step : {"idle", "waits", "numbered", "sent"}, ask : Asks,
                              number : Nat]]
  /\ siteCache \in [age : {"none", "fresh", "old"}, shows : PlugStates \cup {"unknown"}]
  /\ wire \subseteq [ask : Asks, number : Nat]
  /\ gatewayQueue \in Seq(PowerRequests)
  /\ gatewayRunning \in PowerRequests \cup {NoPower}
  /\ answers \subseteq [number : Nat, shows : Outcomes]
  /\ plug \in PlugStates /\ changed \in BOOLEAN

(* A thread that has the lock of the site, and what it asked.               *)
Holds(c) == calls[c].step \in {"numbered", "sent"}
Sent(c) == calls[c].step = "sent"

(* One thread at a time has the lock, and the last number that was drawn.   *)
OneHolder ==
  \A c \in Operators : Holds(c) => /\ calls[c].number = counter /\ counter > 0
                                   /\ \A d \in Operators : Holds(d) => c = d

(* No number is in use that was not committed, and what the gateway carries *)
(* out or answered is not above the highest number it accepted.             *)
Counted ==
  /\ \A request \in wire : request.number <= counter
  /\ \A i \in 1..Len(gatewayQueue) : gatewayQueue[i].number <= counter
  /\ \A a \in answers : a.number <= counter /\ (a.shows # "refused" => a.number <= gatewayLast)
  /\ gatewayRunning.number <= gatewayLast
  /\ settled <= gatewayLast /\ gatewayLast <= counter

(* The gateway knows nothing of the last number.                            *)
LastIsNew == gatewayLast < counter /\ \A a \in answers : a.number # counter

NotOnWire == \A request \in wire : request.number # counter
NotInQueue == \A i \in 1..Len(gatewayQueue) : gatewayQueue[i].number # counter

(* The request with the last number exists once at most, and while it is on *)
(* its way the gateway does not know the number.                            *)
LastOnWire ==
  \A request \in wire : request.number = counter =>
    LastIsNew /\ NotInQueue /\ \A other \in wire : other.number = counter => other = request

LastInQueue ==
  \A i \in 1..Len(gatewayQueue) : gatewayQueue[i].number = counter =>
    LastIsNew /\ \A j \in 1..Len(gatewayQueue) : gatewayQueue[j].number = counter => i = j

NotSentYet ==
  \A c \in Operators : calls[c].step = "numbered" => LastIsNew /\ NotOnWire /\ NotInQueue

(* What is under way with the last number is what the thread asked.         *)
AsAsked ==
  \A c \in Operators : Sent(c) =>
    /\ \A request \in wire : request.number = counter => request.ask = calls[c].ask
    /\ \A i \in 1..Len(gatewayQueue) :
         gatewayQueue[i].number = counter => gatewayQueue[i].ask = calls[c].ask
    /\ gatewayRunning.number = counter => calls[c].ask # "state"

(* A state on its way to the thread that asked for it is still true, unless *)
(* the plug was switched otherwise since.                                   *)
AnswerIsTrue ==
  \A c \in Operators, a \in answers :
    Sent(c) /\ calls[c].ask = "state" /\ a.number = counter /\ a.shows \in PlugStates /\ ~changed
      => a.shows = plug

LastInv == LastOnWire /\ LastInQueue /\ NotSentYet
NumbersInv == GatewayTypes /\ OneHolder /\ Counted /\ LastInv
GatewayInv == NumbersInv /\ AsAsked /\ AnswerIsTrue /\ ShownIsTrue

-----------------------------------------------------------------------------
(* The two ways in which the queue for the event lock changes.              *)
LEMMA Appended ==
  ASSUME NEW S, NEW q \in Seq(S), NEW e \in S
  PROVE  /\ Append(q, e) \in Seq(S) /\ Len(Append(q, e)) = Len(q) + 1
         /\ \A i \in 1..Len(q) : Append(q, e)[i] = q[i]
         /\ Append(q, e)[Len(q) + 1] = e
  OBVIOUS

LEMMA HeadTaken ==
  ASSUME NEW S, NEW q \in Seq(S), q # <<>>
  PROVE  /\ Len(q) \in Nat /\ Len(q) > 0 /\ Head(q) = q[1] /\ Head(q) \in S
         /\ Tail(q) \in Seq(S) /\ Len(Tail(q)) = Len(q) - 1
         /\ \A i \in 1..Len(Tail(q)) : Tail(q)[i] = q[i + 1]
  OBVIOUS

(* A call that draws its number.                                            *)
LEMMA Renumbered ==
  ASSUME NEW S, NEW A, NEW call \in [step : S, ask : A, number : Nat], NEW s \in S, NEW n \in Nat
  PROVE  [call EXCEPT !.step = s, !.number = n] \in [step : S, ask : A, number : Nat]
  OBVIOUS

-----------------------------------------------------------------------------
(* A tower that has asked nothing knows nothing.                            *)
LEMMA GatewayInit == GatewaysInit => GatewayInv
<1> SUFFICES ASSUME GatewaysInit PROVE GatewayInv
  OBVIOUS
<1> USE DEF GatewaysInit, Idle, NoPower, NoSnapshot, Asks, PlugStates
<1>1. GatewayTypes
  <2>1. calls \in [Operators -> [step : {"idle", "waits", "numbered", "sent"}, ask : Asks,
                                 number : Nat]]
    OBVIOUS
  <2>2. gatewayQueue \in Seq(PowerRequests)
    OBVIOUS
  <2> QED BY <2>1, <2>2 DEF GatewayTypes
<1>2. OneHolder /\ NotSentYet /\ AsAsked /\ AnswerIsTrue
  BY DEF OneHolder, NotSentYet, AsAsked, AnswerIsTrue, Holds, Sent
<1>3. Counted /\ LastOnWire /\ LastInQueue
  BY DEF Counted, LastOnWire, LastInQueue
<1>4. ShownIsTrue
  BY DEF ShownIsTrue
<1> QED BY <1>1, <1>2, <1>3, <1>4 DEF GatewayInv, NumbersInv, LastInv

(* Every operation keeps the types.                                         *)
LEMMA TypesStep == GatewayTypes /\ [GatewaysNext]_gatewayVars => GatewayTypes'
<1> SUFFICES ASSUME GatewayTypes, [GatewaysNext]_gatewayVars PROVE GatewayTypes'
  OBVIOUS
<1> USE DEF GatewayTypes, Asks, PlugStates, Outcomes, PowerRequests, callVars, siteVars, Idle,
            NoPower
<1>1. ASSUME NEW c \in Operators, NEW ask \in Asks, Call(c, ask) PROVE GatewayTypes'
  BY <1>1 DEF Call
<1>2. ASSUME NEW c \in Operators, ServeCached(c) PROVE GatewayTypes'
  BY <1>2 DEF ServeCached, Idle
<1>3. ASSUME NEW c \in Operators, Number(c) PROVE GatewayTypes'
  <2>1. calls' = [calls EXCEPT ![c] = [calls[c] EXCEPT !.step = "numbered", !.number = counter + 1]]
    BY <1>3 DEF Number
  <2>2. [calls[c] EXCEPT !.step = "numbered", !.number = counter + 1]
          \in [step : {"idle", "waits", "numbered", "sent"}, ask : Asks, number : Nat]
    <3>1. /\ calls[c] \in [step : {"idle", "waits", "numbered", "sent"}, ask : Asks, number : Nat]
          /\ "numbered" \in {"idle", "waits", "numbered", "sent"} /\ counter + 1 \in Nat
      OBVIOUS
    <3> HIDE DEF GatewayTypes, Asks, PlugStates
    <3> QED BY ONLY <3>1, Renumbered
  <2>3. calls' \in [Operators -> [step : {"idle", "waits", "numbered", "sent"}, ask : Asks,
                                  number : Nat]]
    BY <2>1, <2>2
  <2> QED BY <1>3, <2>3 DEF Number
<1>4. ASSUME NEW c \in Operators, Send(c) PROVE GatewayTypes'
  BY <1>4 DEF Send
<1>5. ASSUME NEW c \in Operators, Answered(c) PROVE GatewayTypes'
  BY <1>5 DEF Answered, Kept, Outdated, Observed, Idle
<1>6. ASSUME NEW c \in Operators, GivesUp(c) PROVE GatewayTypes'
  BY <1>6 DEF GivesUp, Kept, Outdated, Observed, Released, Idle
<1>7. ASSUME NEW request \in wire, ReadState(request) PROVE GatewayTypes'
  <2>1. answers' \subseteq [number : Nat, shows : Outcomes]
    BY <1>7 DEF ReadState, Reply
  <2>2. gatewayLast' \in Nat
    BY <1>7 DEF ReadState
  <2>3. changed' \in BOOLEAN
    BY <1>7, Zenon DEF ReadState
  <2> QED BY <1>7, <2>1, <2>2, <2>3 DEF ReadState
<1>8. ASSUME NEW request \in wire, QueuePower(request) PROVE GatewayTypes'
  <2>1. request \in PowerRequests
    BY <1>8 DEF QueuePower
  <2> QED BY <1>8, <2>1, Appended DEF QueuePower
<1>9. CASE RefusePower
  <2>1. gatewayQueue' \in Seq(PowerRequests) /\ Head(gatewayQueue) \in PowerRequests
    BY <1>9, HeadTaken DEF RefusePower
  <2>2. answers' \subseteq [number : Nat, shows : Outcomes]
    BY <1>9, <2>1 DEF RefusePower, Reply
  <2> QED BY <1>9, <2>1, <2>2 DEF RefusePower
<1>10. CASE BeginPower
  <2>1. gatewayQueue' \in Seq(PowerRequests) /\ Head(gatewayQueue) \in PowerRequests
    BY <1>10, HeadTaken DEF BeginPower
  <2> QED BY <1>10, <2>1 DEF BeginPower
<1>11. CASE EndPower
  BY <1>11 DEF EndPower, Reply, EventLockFree, GatewayFault
<1>12. CASE PhoneBegins
  BY <1>12 DEF PhoneBegins, EventLockFree
<1>13. CASE SnapshotAges
  BY <1>13 DEF SnapshotAges
<1>14. CASE TowerRestarts
  BY <1>14 DEF TowerRestarts, Recounted, GatewayFault, Idle, NoSnapshot
<1>15. CASE Lose
  BY <1>15 DEF Lose
<1>16. CASE GatewayRestarts
  BY <1>16 DEF GatewayRestarts, NoPower
<1>17. CASE UNCHANGED gatewayVars
  BY <1>17 DEF gatewayVars, callVars, siteVars
<1> QED
  BY <1>1, <1>2, <1>3, <1>4, <1>5, <1>6, <1>7, <1>8, <1>9, <1>10, <1>11, <1>12, <1>13,
     <1>14, <1>15, <1>16, <1>17
     DEF GatewaysNext, CallGoesOn, GatewayGoesOn

(* The lock of the site passes from thread to thread with the number.       *)
LEMMA HolderStep == GatewayTypes /\ OneHolder /\ [GatewaysNext]_gatewayVars => OneHolder'
<1> SUFFICES ASSUME GatewayTypes /\ OneHolder, [GatewaysNext]_gatewayVars PROVE OneHolder'
  OBVIOUS
<1> USE DEF GatewayTypes, OneHolder, Holds, callVars, siteVars, Idle
<1>1. ASSUME NEW c \in Operators, NEW ask \in Asks, Call(c, ask) PROVE OneHolder'
  BY <1>1 DEF Call
<1>2. ASSUME NEW c \in Operators, ServeCached(c) PROVE OneHolder'
  BY <1>2 DEF ServeCached, Idle
<1>3. ASSUME NEW c \in Operators, Number(c) PROVE OneHolder'
  BY <1>3 DEF Number, SiteLockFree
<1>4. ASSUME NEW c \in Operators, Send(c) PROVE OneHolder'
  BY <1>4 DEF Send
<1>5. ASSUME NEW c \in Operators, Answered(c) PROVE OneHolder'
  BY <1>5 DEF Answered, Kept, Outdated, Observed, Idle
<1>6. ASSUME NEW c \in Operators, GivesUp(c) PROVE OneHolder'
  BY <1>6 DEF GivesUp, Kept, Outdated, Observed, Released, Idle
<1>7. ASSUME NEW request \in wire, ReadState(request) PROVE OneHolder'
  BY <1>7 DEF ReadState, Reply, New
<1>8. ASSUME NEW request \in wire, QueuePower(request) PROVE OneHolder'
  BY <1>8 DEF QueuePower
<1>9. CASE RefusePower
  BY <1>9 DEF RefusePower, Reply, StillNew, New, EventLockFree
<1>10. CASE BeginPower
  BY <1>10 DEF BeginPower, StillNew, New, EventLockFree
<1>11. CASE EndPower
  BY <1>11 DEF EndPower, Reply, EventLockFree, GatewayFault
<1>12. CASE PhoneBegins
  BY <1>12 DEF PhoneBegins, EventLockFree
<1>13. CASE SnapshotAges
  BY <1>13 DEF SnapshotAges
<1>14. CASE TowerRestarts
  BY <1>14 DEF TowerRestarts, Recounted, GatewayFault, Idle, NoSnapshot
<1>15. CASE Lose
  BY <1>15 DEF Lose
<1>16. CASE GatewayRestarts
  BY <1>16 DEF GatewayRestarts, NoPower
<1>17. CASE UNCHANGED gatewayVars
  BY <1>17 DEF gatewayVars, callVars, siteVars
<1> QED
  BY <1>1, <1>2, <1>3, <1>4, <1>5, <1>6, <1>7, <1>8, <1>9, <1>10, <1>11, <1>12, <1>13,
     <1>14, <1>15, <1>16, <1>17
     DEF GatewaysNext, CallGoesOn, GatewayGoesOn

(* What taking the first of the queue, and joining it, leave in place.      *)
LEMMA HeadLeaves ==
  ASSUME GatewayTypes, gatewayQueue # <<>>, gatewayQueue' = Tail(gatewayQueue)
  PROVE  /\ Len(gatewayQueue) \in Nat /\ Len(gatewayQueue) > 0
         /\ Head(gatewayQueue) = gatewayQueue[1] /\ Len(gatewayQueue') = Len(gatewayQueue) - 1
         /\ \A i \in 1..Len(gatewayQueue') : gatewayQueue'[i] = gatewayQueue[i + 1]
         /\ gatewayQueue[1] \in PowerRequests
  BY HeadTaken DEF GatewayTypes

LEMMA RequestJoins ==
  ASSUME GatewayTypes, NEW request \in wire, QueuePower(request)
  PROVE  /\ Len(gatewayQueue) \in Nat /\ Len(gatewayQueue') = Len(gatewayQueue) + 1
         /\ \A i \in 1..Len(gatewayQueue) : gatewayQueue'[i] = gatewayQueue[i]
         /\ gatewayQueue'[Len(gatewayQueue) + 1] = request
<1>1. request \in PowerRequests /\ gatewayQueue \in Seq(PowerRequests)
  BY DEF GatewayTypes, QueuePower, Asks, PowerRequests
<1>2. Len(gatewayQueue) \in Nat
  BY <1>1
<1> QED BY <1>1, <1>2, Appended DEF QueuePower

(* Numbers of requests the gateway has are numbers.                         *)
LEMMA RunningIsCounted == GatewayTypes => gatewayRunning.number \in Nat
BY DEF GatewayTypes, PowerRequests, NoPower

LEMMA QueuedIsCounted ==
  ASSUME GatewayTypes, NEW i \in 1..Len(gatewayQueue)
  PROVE  gatewayQueue[i].number \in Nat
<1>1. gatewayQueue \in Seq(PowerRequests)
  BY DEF GatewayTypes
<1>2. gatewayQueue[i] \in PowerRequests
  BY <1>1
<1> QED BY <1>2 DEF PowerRequests

(* No step uses a number that was not committed.                            *)
LEMMA CountedStep ==
  GatewayTypes /\ OneHolder /\ Counted /\ [GatewaysNext]_gatewayVars => Counted'
<1> SUFFICES ASSUME GatewayTypes /\ OneHolder /\ Counted, [GatewaysNext]_gatewayVars
             PROVE  Counted'
  OBVIOUS
<1> USE DEF GatewayTypes, OneHolder, Holds, Counted, callVars, siteVars, Idle
<1>1. ASSUME NEW c \in Operators, NEW ask \in Asks, Call(c, ask) PROVE Counted'
  BY <1>1 DEF Call
<1>2. ASSUME NEW c \in Operators, ServeCached(c) PROVE Counted'
  BY <1>2 DEF ServeCached, Idle
<1>3. ASSUME NEW c \in Operators, Number(c) PROVE Counted'
  <2>1. /\ counter' = counter + 1 /\ counter \in Nat
        /\ UNCHANGED <<wire, gatewayQueue, answers, gatewayRunning, settled, gatewayLast>>
    BY <1>3 DEF Number
  <2>2. \A request \in wire : request.number \in Nat
    OBVIOUS
  <2>3. \A i \in 1..Len(gatewayQueue) : gatewayQueue[i].number \in Nat
    BY QueuedIsCounted
  <2>4. \A a \in answers : a.number \in Nat
    OBVIOUS
  <2> HIDE DEF GatewayTypes, OneHolder
  <2> QED BY <2>1, <2>2, <2>3, <2>4, RunningIsCounted DEF GatewayTypes
<1>4. ASSUME NEW c \in Operators, Send(c) PROVE Counted'
  BY <1>4 DEF Send
<1>5. ASSUME NEW c \in Operators, Answered(c) PROVE Counted'
  BY <1>5 DEF Answered, Kept, Outdated, Observed, Idle
<1>6. ASSUME NEW c \in Operators, GivesUp(c) PROVE Counted'
  BY <1>6 DEF GivesUp, Kept, Outdated, Observed, Released, Idle
<1>7. ASSUME NEW request \in wire, ReadState(request) PROVE Counted'
  <2>1. request.number \in Nat
    OBVIOUS
  <2>2. gatewayLast <= gatewayLast' /\ gatewayLast' <= counter /\ gatewayLast' \in Nat
    BY <1>7, <2>1 DEF ReadState, New
  <2>3. \A a \in answers : a.number \in Nat
    OBVIOUS
  <2>4. settled \in Nat /\ gatewayLast \in Nat /\ counter \in Nat /\ gatewayRunning.number \in Nat
    BY RunningIsCounted
  <2>5. UNCHANGED <<gatewayQueue, gatewayRunning, settled, counter>> /\ wire' \subseteq wire
    BY <1>7 DEF ReadState
  <2>6. \A a \in answers :
          a.number <= counter /\ (a.shows # "refused" => a.number <= gatewayLast')
    <3>1. \A a \in answers :
            a.number <= counter /\ (a.shows # "refused" => a.number <= gatewayLast)
      BY DEF Counted
    <3> QED BY <2>2, <2>3, <2>4, <3>1
  <2>7. PICK shown : /\ answers' = answers \cup {[number |-> request.number, shows |-> shown]}
                     /\ shown # "refused" => gatewayLast' = request.number
    BY <1>7 DEF ReadState, Reply
  <2>8. request.number <= counter /\ (shown # "refused" => request.number <= gatewayLast')
    BY <2>1, <2>7 DEF Counted
  <2>9. \A a \in answers' :
          a.number <= counter' /\ (a.shows # "refused" => a.number <= gatewayLast')
    BY <2>5, <2>6, <2>7, <2>8
  <2>10. gatewayRunning'.number <= gatewayLast' /\ settled' <= gatewayLast'
    BY <2>2, <2>4, <2>5
  <2> QED BY <2>2, <2>5, <2>9, <2>10
<1>8. ASSUME NEW request \in wire, QueuePower(request) PROVE Counted'
  BY <1>8, RequestJoins DEF QueuePower
<1>9. CASE RefusePower
  BY <1>9, HeadLeaves DEF RefusePower, Reply
<1>10. CASE BeginPower
  <2>1. gatewayQueue[1].number \in Nat /\ 1 \in 1..Len(gatewayQueue)
    BY <1>10, HeadLeaves DEF BeginPower, PowerRequests
  <2>2. /\ gatewayLast' = gatewayQueue[1].number /\ gatewayRunning' = gatewayQueue[1]
        /\ gatewayLast <= gatewayLast' /\ gatewayLast' <= counter
    BY <1>10, <2>1, HeadLeaves DEF BeginPower, StillNew, New
  <2>3. \A i \in 1..Len(gatewayQueue') : gatewayQueue'[i].number <= counter
    BY <1>10, HeadLeaves DEF BeginPower
  <2>4. \A a \in answers : a.number \in Nat
    OBVIOUS
  <2> QED BY <1>10, <2>1, <2>2, <2>3, <2>4 DEF BeginPower
<1>11. CASE EndPower
  <2>1. \A a \in answers' : a \in answers \/ a.number = gatewayRunning.number
    BY <1>11 DEF EndPower, Reply
  <2>2. gatewayRunning.number \in Nat
    BY DEF PowerRequests, NoPower
  <2>3. /\ gatewayRunning'.number = 0
        /\ UNCHANGED <<counter, gatewayLast, settled, wire, gatewayQueue>>
    BY <1>11 DEF EndPower, NoPower
  <2> QED BY <2>1, <2>2, <2>3
<1>12. CASE PhoneBegins
  BY <1>12 DEF PhoneBegins, EventLockFree
<1>13. CASE SnapshotAges
  BY <1>13 DEF SnapshotAges
<1>14. CASE TowerRestarts
  BY <1>14 DEF TowerRestarts, Recounted, Idle, NoSnapshot
<1>15. CASE Lose
  BY <1>15 DEF Lose
<1>16. CASE GatewayRestarts
  BY <1>16 DEF GatewayRestarts, NoPower
<1>17. CASE UNCHANGED gatewayVars
  BY <1>17 DEF gatewayVars
<1> QED
  BY <1>1, <1>2, <1>3, <1>4, <1>5, <1>6, <1>7, <1>8, <1>9,
     <1>10, <1>11, <1>12, <1>13, <1>14, <1>15, <1>16, <1>17
     DEF GatewaysNext, CallGoesOn, GatewayGoesOn

(* The request with the last number is sent, queued and accepted once.      *)
LEMMA LastStep ==
  GatewayTypes /\ OneHolder /\ Counted /\ LastInv /\ [GatewaysNext]_gatewayVars => LastInv'
<1> SUFFICES ASSUME GatewayTypes /\ OneHolder /\ Counted /\ LastInv, [GatewaysNext]_gatewayVars
             PROVE  LastInv'
  OBVIOUS
<1> USE DEF GatewayTypes, OneHolder, Holds, Counted, LastInv, LastIsNew, LastOnWire,
            LastInQueue, NotSentYet, NotOnWire, NotInQueue, callVars, siteVars, Idle
<1>1. ASSUME NEW c \in Operators, NEW ask \in Asks, Call(c, ask) PROVE LastInv'
  BY <1>1 DEF Call
<1>2. ASSUME NEW c \in Operators, ServeCached(c) PROVE LastInv'
  BY <1>2 DEF ServeCached, Idle
<1>3. ASSUME NEW c \in Operators, Number(c) PROVE LastInv'
  BY <1>3 DEF Number, SiteLockFree
<1>4. ASSUME NEW c \in Operators, Send(c) PROVE LastInv'
  BY <1>4 DEF Send
<1>5. ASSUME NEW c \in Operators, Answered(c) PROVE LastInv'
  BY <1>5 DEF Answered, Kept, Outdated, Observed, Idle
<1>6. ASSUME NEW c \in Operators, GivesUp(c) PROVE LastInv'
  BY <1>6 DEF GivesUp, Kept, Outdated, Observed, Released, Idle
<1>7. ASSUME NEW request \in wire, ReadState(request) PROVE LastInv'
  BY <1>7 DEF ReadState, Reply, New
<1>8. ASSUME NEW request \in wire, QueuePower(request) PROVE LastInv'
  BY <1>8, RequestJoins DEF QueuePower
<1>9. CASE RefusePower
  BY <1>9, HeadLeaves DEF RefusePower, Reply
<1>10. CASE BeginPower
  <2>1. gatewayQueue[1].number \in Nat /\ 1 \in 1..Len(gatewayQueue)
    BY <1>10, HeadLeaves DEF BeginPower, PowerRequests
  <2>2. gatewayLast' = gatewayQueue[1].number /\ gatewayLast' <= counter
    BY <1>10, <2>1, HeadLeaves DEF BeginPower
  <2>3. CASE gatewayQueue[1].number = counter
    <3>1. LastIsNew /\ \A j \in 1..Len(gatewayQueue) : gatewayQueue[j].number = counter => j = 1
      BY <2>1, <2>3
    <3>2. NotOnWire
      BY <2>1, <2>3
    <3>3. \A i \in 1..Len(gatewayQueue') : gatewayQueue'[i].number # counter
      BY <1>10, <3>1, HeadLeaves DEF BeginPower
    <3>4. \A c \in Operators : calls[c].step # "numbered"
      BY <2>1, <2>3
    <3> QED BY <1>10, <3>2, <3>3, <3>4 DEF BeginPower
  <2>4. CASE gatewayQueue[1].number # counter
    <3>1. gatewayLast' < counter /\ UNCHANGED <<counter, wire, answers, calls>>
      BY <1>10, <2>1, <2>2, <2>4 DEF BeginPower
    <3>2. \A i \in 1..Len(gatewayQueue') : /\ i + 1 \in 1..Len(gatewayQueue)
                                          /\ gatewayQueue'[i] = gatewayQueue[i + 1]
      BY <1>10, HeadLeaves DEF BeginPower
    <3>3. LastOnWire' /\ NotSentYet'
      BY <3>1, <3>2
    <3>4. ASSUME NEW i \in 1..Len(gatewayQueue'), gatewayQueue'[i].number = counter
          PROVE  /\ LastIsNew'
                 /\ \A j \in 1..Len(gatewayQueue') : gatewayQueue'[j].number = counter => i = j
      <4>1. /\ i + 1 \in 1..Len(gatewayQueue) /\ gatewayQueue[i + 1].number = counter
            /\ i \in Nat
        BY <3>2, <3>4
      <4>2. LastIsNew
        BY <4>1
      <4>3. \A j \in 1..Len(gatewayQueue') : gatewayQueue'[j].number = counter => i + 1 = j + 1
        BY <3>2, <4>1
      <4> QED BY <3>1, <4>1, <4>2, <4>3
    <3>5. LastInQueue'
      BY <3>1, <3>4
    <3> QED BY <3>3, <3>5
  <2> QED BY <2>3, <2>4
<1>11. CASE EndPower
  BY <1>11 DEF EndPower, Reply, EventLockFree
<1>12. CASE PhoneBegins
  BY <1>12 DEF PhoneBegins, EventLockFree
<1>13. CASE SnapshotAges
  BY <1>13 DEF SnapshotAges
<1>14. CASE TowerRestarts
  BY <1>14 DEF TowerRestarts, Recounted, Idle, NoSnapshot
<1>15. CASE Lose
  BY <1>15 DEF Lose
<1>16. CASE GatewayRestarts
  BY <1>16 DEF GatewayRestarts, NoPower
<1>17. CASE UNCHANGED gatewayVars
  BY <1>17 DEF gatewayVars
<1> QED
  BY <1>1, <1>2, <1>3, <1>4, <1>5, <1>6, <1>7, <1>8, <1>9,
     <1>10, <1>11, <1>12, <1>13, <1>14, <1>15, <1>16, <1>17
     DEF GatewaysNext, CallGoesOn, GatewayGoesOn

(* The gateway is not asked anything but what the thread asked.             *)
LEMMA AsAskedStep == NumbersInv /\ AsAsked /\ [GatewaysNext]_gatewayVars => AsAsked'
<1> SUFFICES ASSUME NumbersInv /\ AsAsked, [GatewaysNext]_gatewayVars PROVE AsAsked'
  OBVIOUS
<1> USE DEF NumbersInv, AsAsked, GatewayTypes, OneHolder, Holds, Sent, Counted, LastInv,
            LastIsNew, LastOnWire, LastInQueue, NotSentYet, NotOnWire, NotInQueue, callVars,
            siteVars, Idle
<1>1. ASSUME NEW c \in Operators, NEW ask \in Asks, Call(c, ask) PROVE AsAsked'
  BY <1>1 DEF Call
<1>2. ASSUME NEW c \in Operators, ServeCached(c) PROVE AsAsked'
  BY <1>2 DEF ServeCached, Idle
<1>3. ASSUME NEW c \in Operators, Number(c) PROVE AsAsked'
  BY <1>3 DEF Number, SiteLockFree
<1>4. ASSUME NEW c \in Operators, Send(c) PROVE AsAsked'
  BY <1>4 DEF Send
<1>5. ASSUME NEW c \in Operators, Answered(c) PROVE AsAsked'
  BY <1>5 DEF Answered, Kept, Outdated, Observed, Idle
<1>6. ASSUME NEW c \in Operators, GivesUp(c) PROVE AsAsked'
  BY <1>6 DEF GivesUp, Kept, Outdated, Observed, Released, Idle
<1>7. ASSUME NEW request \in wire, ReadState(request) PROVE AsAsked'
  BY <1>7 DEF ReadState, Reply, New
<1>8. ASSUME NEW request \in wire, QueuePower(request) PROVE AsAsked'
  BY <1>8, RequestJoins DEF QueuePower
<1>9. CASE RefusePower
  BY <1>9, HeadLeaves DEF RefusePower, Reply
<1>10. CASE BeginPower
  <2> SUFFICES ASSUME NEW c \in Operators, Sent(c)'
               PROVE  /\ \A request \in wire' : request.number = counter' => request.ask = calls'[c].ask
                      /\ \A i \in 1..Len(gatewayQueue') :
                           gatewayQueue'[i].number = counter' => gatewayQueue'[i].ask = calls'[c].ask
                      /\ gatewayRunning'.number = counter' => calls'[c].ask # "state"
    OBVIOUS
  <2>1. UNCHANGED <<wire, counter, calls>> /\ Sent(c)
    BY <1>10 DEF BeginPower
  <2>2. /\ gatewayRunning' = gatewayQueue[1] /\ 1 \in 1..Len(gatewayQueue)
        /\ gatewayQueue[1].ask # "state"
        /\ \A i \in 1..Len(gatewayQueue') : /\ i + 1 \in 1..Len(gatewayQueue)
                                            /\ gatewayQueue'[i] = gatewayQueue[i + 1]
    BY <1>10, HeadLeaves DEF BeginPower, PowerRequests, PlugStates
  <2>3. \A i \in 1..Len(gatewayQueue) :
          gatewayQueue[i].number = counter => gatewayQueue[i].ask = calls[c].ask
    BY <2>1
  <2>4. \A request \in wire : request.number = counter => request.ask = calls[c].ask
    BY <2>1
  <2> QED BY <2>1, <2>2, <2>3, <2>4
<1>11. CASE EndPower
  <2>1. gatewayRunning'.number = 0 /\ UNCHANGED <<wire, gatewayQueue, counter, calls>>
    BY <1>11 DEF EndPower, NoPower
  <2> QED BY <2>1
<1>12. CASE PhoneBegins
  BY <1>12 DEF PhoneBegins, EventLockFree
<1>13. CASE SnapshotAges
  BY <1>13 DEF SnapshotAges
<1>14. CASE TowerRestarts
  BY <1>14 DEF TowerRestarts, Recounted, Idle, NoSnapshot
<1>15. CASE Lose
  BY <1>15 DEF Lose
<1>16. CASE GatewayRestarts
  BY <1>16 DEF GatewayRestarts, NoPower
<1>17. CASE UNCHANGED gatewayVars
  BY <1>17 DEF gatewayVars
<1> QED
  BY <1>1, <1>2, <1>3, <1>4, <1>5, <1>6, <1>7, <1>8, <1>9,
     <1>10, <1>11, <1>12, <1>13, <1>14, <1>15, <1>16, <1>17
     DEF GatewaysNext, CallGoesOn, GatewayGoesOn

(* A state on its way back stays true while nothing else switches the plug. *)
LEMMA AnswerStep ==
  NumbersInv /\ AsAsked /\ AnswerIsTrue /\ [GatewaysNext]_gatewayVars => AnswerIsTrue'
<1> SUFFICES ASSUME NumbersInv /\ AsAsked /\ AnswerIsTrue, [GatewaysNext]_gatewayVars
             PROVE  AnswerIsTrue'
  OBVIOUS
<1> USE DEF NumbersInv, AsAsked, AnswerIsTrue, GatewayTypes, OneHolder, Holds, Sent, Counted,
            LastInv, LastIsNew, LastOnWire, LastInQueue, NotSentYet, NotOnWire, NotInQueue,
            callVars, siteVars, Idle
<1>1. ASSUME NEW c \in Operators, NEW ask \in Asks, Call(c, ask) PROVE AnswerIsTrue'
  BY <1>1 DEF Call
<1>2. ASSUME NEW c \in Operators, ServeCached(c) PROVE AnswerIsTrue'
  BY <1>2 DEF ServeCached, Idle
<1>3. ASSUME NEW c \in Operators, Number(c) PROVE AnswerIsTrue'
  BY <1>3 DEF Number, SiteLockFree
<1>4. ASSUME NEW c \in Operators, Send(c) PROVE AnswerIsTrue'
  BY <1>4 DEF Send
<1>5. ASSUME NEW c \in Operators, Answered(c) PROVE AnswerIsTrue'
  BY <1>5 DEF Answered, Kept, Outdated, Observed, Idle
<1>6. ASSUME NEW c \in Operators, GivesUp(c) PROVE AnswerIsTrue'
  BY <1>6 DEF GivesUp, Kept, Outdated, Observed, Released, Idle
<1>7. ASSUME NEW request \in wire, ReadState(request) PROVE AnswerIsTrue'
  BY <1>7 DEF ReadState, Reply, New, Awaited
<1>8. ASSUME NEW request \in wire, QueuePower(request) PROVE AnswerIsTrue'
  BY <1>8, RequestJoins DEF QueuePower
<1>9. CASE RefusePower
  <2>1. \A a \in answers' : a \in answers \/ a.shows = "refused"
    BY <1>9 DEF RefusePower, Reply
  <2>2. UNCHANGED <<counter, calls, plug, changed>> /\ "refused" \notin PlugStates
    BY <1>9 DEF RefusePower, PlugStates
  <2> QED BY <2>1, <2>2
<1>10. CASE BeginPower
  BY <1>10, HeadLeaves DEF BeginPower, StillNew, New
<1>11. CASE EndPower
  <2>1. \A a \in answers' : a \in answers \/ a.shows \notin PlugStates
    BY <1>11 DEF EndPower, Reply, PlugStates
  <2>2. UNCHANGED <<counter, calls>>
    BY <1>11 DEF EndPower
  <2>3. ASSUME NEW c \in Operators, Sent(c), calls[c].ask = "state"
        PROVE  ~Awaited(gatewayRunning)
    <3>1. ASSUME NEW d \in Operators, Sent(d), calls[d].number = gatewayRunning.number
          PROVE  FALSE
      <4>1. d = c /\ calls[d].number = counter
        BY <2>3, <3>1
      <4> QED BY <2>3, <3>1, <4>1
    <3> QED BY <3>1 DEF Awaited
  <2>4. ASSUME NEW c \in Operators, Sent(c), calls[c].ask = "state", ~changed'
        PROVE  ~changed /\ plug' = plug
    BY <1>11, <2>3, <2>4 DEF EndPower
  <2> QED BY <2>1, <2>2, <2>4
<1>12. CASE PhoneBegins
  BY <1>12 DEF PhoneBegins, EventLockFree
<1>13. CASE SnapshotAges
  BY <1>13 DEF SnapshotAges
<1>14. CASE TowerRestarts
  BY <1>14 DEF TowerRestarts, Recounted, Idle, NoSnapshot
<1>15. CASE Lose
  BY <1>15 DEF Lose
<1>16. CASE GatewayRestarts
  <2>1. ~changed' => ~changed /\ plug' = plug
    BY <1>16 DEF GatewayRestarts, PlugStates
  <2>2. UNCHANGED <<counter, calls, answers>>
    BY <1>16 DEF GatewayRestarts
  <2> QED BY <2>1, <2>2
<1>17. CASE UNCHANGED gatewayVars
  BY <1>17 DEF gatewayVars
<1> QED
  BY <1>1, <1>2, <1>3, <1>4, <1>5, <1>6, <1>7, <1>8, <1>9,
     <1>10, <1>11, <1>12, <1>13, <1>14, <1>15, <1>16, <1>17
     DEF GatewaysNext, CallGoesOn, GatewayGoesOn

(* The snapshot stays true: a power call ends by making it old.             *)
LEMMA ShownStep == GatewayInv /\ [GatewaysNext]_gatewayVars => ShownIsTrue'
<1> SUFFICES ASSUME GatewayInv, [GatewaysNext]_gatewayVars PROVE ShownIsTrue'
  OBVIOUS
<1> USE DEF GatewayInv, NumbersInv, AsAsked, AnswerIsTrue, ShownIsTrue, SiteLockFree,
            GatewayTypes, OneHolder, Holds, Sent, Counted, LastInv, LastIsNew, LastOnWire,
            LastInQueue, NotSentYet, NotOnWire, NotInQueue, callVars, siteVars, Idle
<1>1. ASSUME NEW c \in Operators, NEW ask \in Asks, Call(c, ask) PROVE ShownIsTrue'
  BY <1>1 DEF Call
<1>2. ASSUME NEW c \in Operators, ServeCached(c) PROVE ShownIsTrue'
  BY <1>2 DEF ServeCached, Idle
<1>3. ASSUME NEW c \in Operators, Number(c) PROVE ShownIsTrue'
  BY <1>3 DEF Number, SiteLockFree
<1>4. ASSUME NEW c \in Operators, Send(c) PROVE ShownIsTrue'
  BY <1>4 DEF Send
<1>5. ASSUME NEW c \in Operators, Answered(c) PROVE ShownIsTrue'
  <2>1. PICK a \in answers : a.number = calls[c].number /\ Kept(calls[c].ask, a.shows)
    BY <1>5 DEF Answered
  <2>2. Sent(c) /\ calls[c].number = counter /\ UNCHANGED <<plug, changed>>
    BY <1>5 DEF Answered
  <2>3. CASE calls[c].ask = "state"
    <3>1. siteCache'.shows \in PlugStates => siteCache'.shows = a.shows
      BY <2>1, <2>3 DEF Kept, Observed, PlugStates
    <3> QED BY <2>1, <2>2, <2>3, <3>1
  <2>4. CASE calls[c].ask # "state"
    <3>1. siteCache'.age # "fresh"
      BY <2>1, <2>4 DEF Kept, Outdated
    <3> QED BY <3>1
  <2> QED BY <2>3, <2>4
<1>6. ASSUME NEW c \in Operators, GivesUp(c) PROVE ShownIsTrue'
  <2>1. siteCache'.age # "fresh" \/ siteCache'.shows \notin PlugStates
    BY <1>6 DEF GivesUp, Kept, Outdated, Observed, PlugStates
  <2> QED BY <2>1
<1>7. ASSUME NEW request \in wire, ReadState(request) PROVE ShownIsTrue'
  BY <1>7 DEF ReadState, Reply, New, Awaited
<1>8. ASSUME NEW request \in wire, QueuePower(request) PROVE ShownIsTrue'
  BY <1>8, RequestJoins DEF QueuePower
<1>9. CASE RefusePower
  BY <1>9, HeadLeaves DEF RefusePower, Reply
<1>10. CASE BeginPower
  BY <1>10, HeadLeaves DEF BeginPower, StillNew, New
<1>11. CASE EndPower
  BY <1>11 DEF EndPower, Reply, EventLockFree, Awaited
<1>12. CASE PhoneBegins
  BY <1>12 DEF PhoneBegins, EventLockFree
<1>13. CASE SnapshotAges
  BY <1>13 DEF SnapshotAges
<1>14. CASE TowerRestarts
  BY <1>14 DEF TowerRestarts, Recounted, Idle, NoSnapshot
<1>15. CASE Lose
  BY <1>15 DEF Lose
<1>16. CASE GatewayRestarts
  <2>1. ~changed' => ~changed /\ plug' = plug
    BY <1>16 DEF GatewayRestarts, PlugStates
  <2>2. UNCHANGED <<calls, siteCache>>
    BY <1>16 DEF GatewayRestarts
  <2> QED BY <2>1, <2>2
<1>17. CASE UNCHANGED gatewayVars
  BY <1>17 DEF gatewayVars
<1> QED
  BY <1>1, <1>2, <1>3, <1>4, <1>5, <1>6, <1>7, <1>8, <1>9,
     <1>10, <1>11, <1>12, <1>13, <1>14, <1>15, <1>16, <1>17
     DEF GatewaysNext, CallGoesOn, GatewayGoesOn

-----------------------------------------------------------------------------
(* The invariant behind the results: the last number is drawn by the one    *)
(* thread that has the lock, and known to the gateway when it is answered.  *)
THEOREM GatewayInvariant == GatewaysSpec => []GatewayInv
<1>1. GatewaysInit => GatewayInv
  BY GatewayInit
<1>2. GatewayInv /\ [GatewaysNext]_gatewayVars => GatewayInv'
  BY TypesStep, HolderStep, CountedStep, LastStep, AsAskedStep, AnswerStep, ShownStep
     DEF GatewayInv, NumbersInv
<1> QED BY <1>1, <1>2, PTL DEF GatewaysSpec

(* A request whose answer is awaited is new to the gateway, however many    *)
(* others were given up: the number in the database is never used twice and *)
(* the lock of the site is held until the answer (_sequence, _state,        *)
(* _power).                                                                 *)
THEOREM AwaitedIsNewHolds == GatewaysSpec => []AwaitedIsNew
<1>1. GatewayInv => AwaitedIsNew
  <2> SUFFICES ASSUME GatewayInv PROVE AwaitedIsNew
    OBVIOUS
  <2>1. \A request : Awaited(request) => request.number = counter
    BY DEF GatewayInv, NumbersInv, OneHolder, Holds, Awaited
  <2>2. DOMAIN gatewayQueue = 1..Len(gatewayQueue)
    BY DEF GatewayInv, NumbersInv, GatewayTypes
  <2>3. /\ \A request \in wire : request.number = counter => gatewayLast < counter
        /\ \A i \in 1..Len(gatewayQueue) : gatewayQueue[i].number = counter => gatewayLast < counter
    BY DEF GatewayInv, NumbersInv, LastInv, LastOnWire, LastInQueue, LastIsNew
  <2>4. counter \in Nat /\ gatewayLast \in Nat
    BY DEF GatewayInv, NumbersInv, GatewayTypes
  <2> QED BY <2>1, <2>2, <2>3, <2>4 DEF AwaitedIsNew, New
<1> QED BY <1>1, GatewayInvariant, PTL

(* What a tower shows of its gateway is the state of the plug, unless       *)
(* something it does not know of switched it since (_state, _power).        *)
THEOREM ShownIsTrueHolds == GatewaysSpec => []ShownIsTrue
<1>1. GatewayInv => ShownIsTrue
  BY DEF GatewayInv
<1> QED BY <1>1, GatewayInvariant, PTL

(* An answer settles everything asked before it: no request with a lower    *)
(* number begins to switch after it (_authenticate_and_record_event under   *)
(* the event lock).                                                         *)
THEOREM RefreshSettlesHolds == GatewaysSpec => RefreshSettles
<1>1. ASSUME GatewayInv, [GatewaysNext]_gatewayVars,
             gatewayRunning' # gatewayRunning, gatewayRunning'.number # 0
      PROVE  gatewayRunning'.number > settled
  <2>1. CASE BeginPower
    <3>1. gatewayRunning' = Head(gatewayQueue) /\ Head(gatewayQueue).number > gatewayLast
      BY <2>1 DEF BeginPower, StillNew, New
    <3>2. settled <= gatewayLast /\ settled \in Nat /\ gatewayLast \in Nat
      BY <1>1 DEF GatewayInv, NumbersInv, Counted, GatewayTypes
    <3>3. Head(gatewayQueue).number \in Nat
      BY <1>1, <2>1, HeadLeaves DEF BeginPower, GatewayInv, NumbersInv, PowerRequests
    <3> QED BY <3>1, <3>2, <3>3
  <2>2. CASE EndPower \/ PhoneBegins \/ GatewayRestarts
    BY <1>1, <2>2 DEF EndPower, PhoneBegins, GatewayRestarts, NoPower
  <2>3. CASE ~BeginPower /\ ~(EndPower \/ PhoneBegins \/ GatewayRestarts)
    BY <1>1, <2>3
       DEF GatewaysNext, CallGoesOn, GatewayGoesOn, Call, ServeCached, Number, Send, Answered, GivesUp,
           SnapshotAges, TowerRestarts, Lose, ReadState, QueuePower, RefusePower, gatewayVars,
           callVars, siteVars
  <2> QED BY <2>1, <2>2, <2>3
<1> QED BY <1>1, GatewayInvariant, PTL DEF GatewaysSpec, RefreshSettles

-----------------------------------------------------------------------------
(* The unlock automation of the gateway: its record of the phones, in memory *)
(* and in the file.                                                         *)

(* What a record of the automation obeys, in memory and in the file, when   *)
(* the ids of "fresh" were never paired, "acted" are the last sequences     *)
(* that commanded plugs, and "runs" the unlocks of this cooldown: it names  *)
(* no more phones than allowed, none of them fresh; a phone that unlocked   *)
(* is cooling; and no sequence of a paired phone is behind what acted.      *)
KeepsPhones(a) ==
    /\ IsFiniteSet(Paired(a)) /\ Cardinality(Paired(a)) <= PhoneLimit
    /\ ~RemoteOrigin => Cardinality(Paired(a)) <= 1
    /\ a.primary \notin a.remotes
    /\ a.primary = NoPhone => a.remotes = {}
    /\ a.enabled => a.primary # NoPhone /\ a.chosen

Sound(a, fresh, acted, runs) ==
    /\ a \in Automation /\ KeepsPhones(a)
    /\ \A p \in Paired(a) : p \notin fresh /\ acted[p] <= a.sequence[p]
    /\ a.primary # NoPhone /\ runs[a.primary] # 0 => a.cooling

SoundRecords ==
    /\ Sound(automation, unusedIds \cup installing, lastActed, unlocksRun)
    /\ Sound(savedAutomation, unusedIds \cup installing, lastActed, unlocksRun)

(* An id that was never paired has done nothing.                            *)
FreshIsUnheard ==
    /\ unusedIds \cap installing = {}
    /\ \A p \in unusedIds \cup installing : lastActed[p] = 0 /\ unlocksRun[p] = 0

(* A request that waits for the event lock or holds it carries its event,   *)
(* and waits once.                                                          *)
WaitsOnce ==
    /\ \A i \in 1..Len(eventQueue) : /\ deliveries[eventQueue[i]] # NoEvent
                                     /\ eventQueue[i] # eventRunning
    /\ \A i, j \in 1..Len(eventQueue) : eventQueue[i] = eventQueue[j] => i = j
    /\ eventRunning # NoDelivery => deliveries[eventRunning] # NoEvent

UnlockInv == UnlockTypeOK /\ UnlockCoolsDown /\ SoundRecords /\ FreshIsUnheard /\ WaitsOnce

\* The parts of the state an operation writes.
QueueTypes ==
    /\ deliveries \in [Deliveries -> PhoneEvents \cup {NoEvent}]
    /\ eventQueue \in Seq(Deliveries)
    /\ eventRunning \in Deliveries \cup {NoDelivery}

HistoryTypes ==
    /\ installing \subseteq Phones /\ unusedIds \subseteq Phones
    /\ lastActed \in [Phones -> Nat] /\ unlocksRun \in [Phones -> Nat]

-----------------------------------------------------------------------------
(* What the operations make of a record: a record that is sound stays sound *)
(* when fewer ids are fresh, when a newer sequence number is kept, when the *)
(* tutor configures it, and when it starts to cool.                         *)
LEMMA PairedPhones ==
    ASSUME NEW a \in Automation
    PROVE  Paired(a) \subseteq Phones /\ (a.primary # NoPhone => a.primary \in Phones)
BY UnlockAssumption DEF Automation, Paired

LEMMA FewerFresh ==
    ASSUME NEW a, NEW fresh, NEW less \in SUBSET fresh, NEW acted, NEW runs,
           Sound(a, fresh, acted, runs)
    PROVE  Sound(a, less, acted, runs)
BY DEF Sound

LEMMA NewerSequence ==
    ASSUME NEW a, NEW fresh, NEW acted \in [Phones -> Nat], NEW runs,
           Sound(a, fresh, acted, runs),
           NEW e \in PhoneEvents, e.sequence > a.sequence[e.phone]
    PROVE  Sound([a EXCEPT !.sequence[e.phone] = e.sequence], fresh, acted, runs)
<1> DEFINE b == [a EXCEPT !.sequence[e.phone] = e.sequence]
<1>1. a \in Automation /\ e.phone \in Phones /\ e.sequence \in Nat
  BY UnlockAssumption DEF Sound
<1>2. b \in Automation BY <1>1 DEF Automation
<1>3. /\ b.primary = a.primary /\ b.remotes = a.remotes /\ b.enabled = a.enabled
      /\ b.chosen = a.chosen /\ b.cooling = a.cooling
      /\ b.sequence = [a.sequence EXCEPT ![e.phone] = e.sequence]
  BY <1>1 DEF Automation
<1> HIDE DEF b
<1>4. Paired(b) = Paired(a) BY <1>3 DEF Paired
<1>5. KeepsPhones(b) BY <1>3, <1>4 DEF KeepsPhones, Sound
<1>6. ASSUME NEW p \in Paired(b) PROVE p \notin fresh /\ acted[p] <= b.sequence[p]
  <2>1. p \in Phones /\ p \notin fresh /\ acted[p] <= a.sequence[p]
    BY <1>1, <1>4, <1>6, PairedPhones DEF Sound
  <2>2. a.sequence \in [Phones -> Nat] BY <1>1 DEF Automation
  <2>3. acted[p] \in Nat BY <2>1
  <2>4. b.sequence[p] >= a.sequence[p] BY <1>1, <1>3, <2>1, <2>2
  <2>5. a.sequence[p] \in Nat /\ b.sequence[p] \in Nat BY <1>1, <1>3, <2>1, <2>2
  <2> QED BY <2>1, <2>3, <2>4, <2>5
<1>7. b.primary # NoPhone /\ runs[b.primary] # 0 => b.cooling BY <1>3 DEF Sound
<1>8. Sound(b, fresh, acted, runs) BY <1>2, <1>5, <1>6, <1>7 DEF Sound
<1> QED BY <1>8 DEF b

LEMMA Reconfigured ==
    ASSUME NEW a, NEW fresh, NEW acted, NEW runs, Sound(a, fresh, acted, runs),
           NEW enabled \in BOOLEAN, NEW chosen \in BOOLEAN,
           enabled => a.primary # NoPhone /\ chosen
    PROVE  Sound([a EXCEPT !.enabled = enabled, !.chosen = chosen], fresh, acted, runs)
<1> DEFINE b == [a EXCEPT !.enabled = enabled, !.chosen = chosen]
<1>1. a \in Automation BY DEF Sound
<1>2. b \in Automation BY <1>1 DEF Automation
<1>3. /\ b.primary = a.primary /\ b.remotes = a.remotes /\ b.enabled = enabled
      /\ b.chosen = chosen /\ b.cooling = a.cooling /\ b.sequence = a.sequence
  BY <1>1 DEF Automation
<1> HIDE DEF b
<1>4. Paired(b) = Paired(a) BY <1>3 DEF Paired
<1>5. Sound(b, fresh, acted, runs) BY <1>2, <1>3, <1>4 DEF Sound, KeepsPhones
<1> QED BY <1>5 DEF b

LEMMA CoolingOn ==
    ASSUME NEW a, NEW fresh, NEW acted, NEW runs, NEW more,
           Sound(a, fresh, acted, runs)
    PROVE  Sound([a EXCEPT !.cooling = TRUE], fresh, acted, more)
<1> DEFINE b == [a EXCEPT !.cooling = TRUE]
<1>1. a \in Automation BY DEF Sound
<1>2. b \in Automation BY <1>1 DEF Automation
<1>3. /\ b.primary = a.primary /\ b.remotes = a.remotes /\ b.enabled = a.enabled
      /\ b.chosen = a.chosen /\ b.cooling /\ b.sequence = a.sequence
  BY <1>1 DEF Automation
<1> HIDE DEF b
<1>4. Paired(b) = Paired(a) BY <1>3 DEF Paired
<1>5. Sound(b, fresh, acted, more) BY <1>2, <1>3, <1>4 DEF Sound, KeepsPhones
<1> QED BY <1>5 DEF b

LEMMA CoolingOff ==
    ASSUME NEW a, NEW fresh, NEW acted, NEW runs, Sound(a, fresh, acted, runs)
    PROVE  Sound([a EXCEPT !.cooling = FALSE], fresh, acted, [p \in Phones |-> 0])
<1> DEFINE b == [a EXCEPT !.cooling = FALSE]
<1>1. a \in Automation BY DEF Sound
<1>2. b \in Automation BY <1>1 DEF Automation
<1>3. /\ b.primary = a.primary /\ b.remotes = a.remotes /\ b.enabled = a.enabled
      /\ b.chosen = a.chosen /\ b.sequence = a.sequence
  BY <1>1 DEF Automation
<1> HIDE DEF b
<1>4. Paired(b) = Paired(a) BY <1>3 DEF Paired
<1>5. b.primary # NoPhone => [p \in Phones |-> 0][b.primary] = 0
  BY <1>2, PairedPhones
<1>6. Sound(b, fresh, acted, [p \in Phones |-> 0])
  BY <1>2, <1>3, <1>4, <1>5 DEF Sound, KeepsPhones
<1> QED BY <1>6 DEF b

(* A record without phones is sound, whatever happened before.              *)
LEMMA NoPhones ==
    ASSUME NEW a \in Automation, a.primary = NoPhone, a.remotes = {}, ~a.enabled,
           NEW fresh, NEW acted, NEW runs
    PROVE  Sound(a, fresh, acted, runs)
<1>1. Paired(a) = {} BY DEF Paired
<1>2. IsFiniteSet(Paired(a)) /\ Cardinality(Paired(a)) = 0
  BY <1>1, FS_EmptySet
<1> QED BY <1>1, <1>2, UnlockAssumption DEF Sound, KeepsPhones

(* A pairing with room for it adds one phone that was never paired before.  *)
LEMMA OnePhoneMore ==
    ASSUME NEW a, NEW fresh, NEW acted \in [Phones -> Nat], NEW runs,
           Sound(a, fresh, acted, runs), HasCapacity(a),
           NEW p \in Phones, p \in fresh, acted[p] = 0, runs[p] = 0
    PROVE  Sound(WithPhone(a, p), fresh \ {p}, acted, runs)
<1> DEFINE b == WithPhone(a, p)
<1>1. a \in Automation /\ p # NoPhone BY UnlockAssumption DEF Sound
<1>2. p \notin Paired(a) BY DEF Sound
<1>3. b \in Automation BY <1>1 DEF WithPhone, Automation
<1>4. b.sequence = [a.sequence EXCEPT ![p] = 0] BY <1>1 DEF WithPhone, Automation
<1>5. CASE a.primary = NoPhone
  <2>1. b.primary = p /\ b.remotes = {} /\ ~b.enabled
    BY <1>1, <1>5 DEF WithPhone, Automation, Sound, KeepsPhones
  <2> HIDE DEF b
  <2>2. Paired(b) = {p} BY <1>1, <2>1 DEF Paired
  <2>3. IsFiniteSet(Paired(b)) /\ Cardinality(Paired(b)) = 1 BY <2>2, FS_Singleton
  <2>4. KeepsPhones(b) BY <1>1, <2>1, <2>3, UnlockAssumption DEF KeepsPhones
  <2>5. acted[p] <= b.sequence[p] BY <1>1, <1>4 DEF Automation
  <2>6. Sound(b, fresh \ {p}, acted, runs) BY <1>3, <2>1, <2>2, <2>4, <2>5 DEF Sound
  <2> QED BY <2>6 DEF b
<1>6. CASE a.primary # NoPhone
  <2>1. /\ b.primary = a.primary /\ b.remotes = a.remotes \cup {p}
        /\ b.enabled = a.enabled /\ b.chosen = a.chosen /\ b.cooling = a.cooling
    BY <1>1, <1>6 DEF WithPhone, Automation
  <2> HIDE DEF b
  <2>2. Paired(b) = Paired(a) \cup {p} BY <2>1 DEF Paired
  <2>3. IsFiniteSet(Paired(b)) /\ Cardinality(Paired(b)) = Cardinality(Paired(a)) + 1
    BY <1>2, <2>2, FS_AddElement DEF Sound, KeepsPhones
  <2>4. RemoteOrigin /\ Cardinality(Paired(a)) < PhoneLimit /\ Cardinality(Paired(a)) \in Nat
    BY <1>6, FS_CardinalityType DEF HasCapacity, Sound, KeepsPhones
  <2>5. a.primary # p BY <1>2, <1>6 DEF Paired
  <2>6. KeepsPhones(b) BY <2>1, <2>3, <2>4, <2>5, <1>6, UnlockAssumption DEF KeepsPhones, Sound
  <2>7. ASSUME NEW q \in Paired(b) PROVE q \notin fresh \ {p} /\ acted[q] <= b.sequence[q]
    <3>1. a.sequence \in [Phones -> Nat] BY <1>1 DEF Automation
    <3>2. CASE q = p BY <1>4, <3>1, <3>2
    <3>3. CASE q # p BY <1>1, <1>4, <2>2, <2>7, <3>1, <3>3, PairedPhones DEF Sound
    <3> QED BY <3>2, <3>3
  <2>8. Sound(b, fresh \ {p}, acted, runs) BY <1>3, <2>1, <2>6, <2>7 DEF Sound
  <2> QED BY <2>8 DEF b
<1> QED BY <1>5, <1>6

-----------------------------------------------------------------------------
(* The queue of the event lock: what the operations do to it.               *)
QueueSame == UNCHANGED <<deliveries, eventQueue, eventRunning>>

LEMMA HeadServed ==
    ASSUME UnlockTypeOK, WaitsOnce, NEW d \in Deliveries, HasLock(d),
           eventQueue' = Tail(eventQueue),
           \/ Answer(d) /\ eventRunning' = eventRunning
           \/ UNCHANGED deliveries /\ eventRunning' = d
    PROVE  QueueTypes' /\ WaitsOnce'
<1> USE UnlockAssumption DEF UnlockTypeOK, WaitsOnce, HasLock, Answer
<1>1. /\ eventQueue' \in Seq(Deliveries) /\ Len(eventQueue) \in Nat \ {0}
      /\ Len(eventQueue') = Len(eventQueue) - 1
      /\ d = eventQueue[1] /\ 1 \in 1..Len(eventQueue)
      /\ \A i \in 1..Len(eventQueue') : /\ eventQueue'[i] = eventQueue[i + 1]
                                        /\ i + 1 \in 1..Len(eventQueue) /\ i + 1 # 1
  BY DEF HasLock
<1>2. \A i \in 1..Len(eventQueue') : eventQueue'[i] # d /\ eventQueue'[i] \in Deliveries
  BY <1>1
<1>3. deliveries[d] # NoEvent /\ d # NoDelivery BY <1>1
<1>4. /\ deliveries' \in [Deliveries -> PhoneEvents \cup {NoEvent}]
      /\ eventRunning' \in Deliveries \cup {NoDelivery}
      /\ \A c \in Deliveries \ {d} : deliveries'[c] = deliveries[c]
      /\ eventRunning' # NoDelivery => eventRunning' = d /\ deliveries'[d] = deliveries[d]
  OBVIOUS
<1>5. QueueTypes' BY <1>1, <1>4 DEF QueueTypes
<1>6. \A i \in 1..Len(eventQueue') : /\ deliveries'[eventQueue'[i]] # NoEvent
                                     /\ eventQueue'[i] # eventRunning'
  BY <1>1, <1>2, <1>4
<1>7. ASSUME NEW i \in 1..Len(eventQueue'), NEW j \in 1..Len(eventQueue'),
             eventQueue'[i] = eventQueue'[j]
      PROVE  i = j
  <2>1. /\ i + 1 \in 1..Len(eventQueue) /\ j + 1 \in 1..Len(eventQueue)
        /\ eventQueue[i + 1] = eventQueue[j + 1]
    BY <1>1, <1>7
  <2>2. i + 1 = j + 1 BY <2>1
  <2> QED BY <2>2
<1>8. WaitsOnce' BY <1>3, <1>4, <1>6, <1>7
<1> QED BY <1>5, <1>8

(* Every operation keeps the queue in order.                                *)
LEMMA QueueStep == UnlockInv /\ [UnlockNext]_unlockVars => QueueTypes' /\ WaitsOnce'
<1> DEFINE QueueKept == QueueTypes' /\ WaitsOnce'
<1> SUFFICES ASSUME UnlockInv, [UnlockNext]_unlockVars PROVE QueueKept
  OBVIOUS
<1> USE UnlockAssumption DEF UnlockInv
<1>1. ASSUME QueueSame PROVE QueueKept
  BY <1>1 DEF QueueSame, QueueTypes, UnlockTypeOK, WaitsOnce
<1>2. ASSUME NEW p \in Phones,
             BeginPairing(p) \/ CommitPairing(p) \/ AbandonPairing(p) \/ PairDesktop(p)
      PROVE QueueKept
  BY <1>1, <1>2 DEF QueueSame, BeginPairing, CommitPairing, AbandonPairing, PairDesktop
<1>3. CASE RemoveCompanions \/ CooldownLapses \/ UNCHANGED unlockVars
  BY <1>1, <1>3 DEF QueueSame, RemoveCompanions, CooldownLapses, unlockVars
<1>4. ASSUME NEW enabled \in BOOLEAN, NEW chosen \in BOOLEAN, Configure(enabled, chosen)
      PROVE QueueKept
  BY <1>1, <1>4 DEF QueueSame, Configure
<1>5. ASSUME NEW e \in PhoneEvents, AnswerStatePoll(e) PROVE QueueKept
  BY <1>1, <1>5 DEF QueueSame, AnswerStatePoll
<1>6. ASSUME NEW d \in Deliveries, NEW e \in PhoneEvents, ReceiveEvent(d, e) PROVE QueueKept
  <2> USE DEF UnlockTypeOK, WaitsOnce
  <2>1. /\ deliveries[d] = NoEvent /\ e # NoEvent
        /\ deliveries' = [deliveries EXCEPT ![d] = e]
        /\ eventQueue' = Append(eventQueue, d) /\ eventRunning' = eventRunning
    BY <1>6 DEF ReceiveEvent
  <2>2. /\ eventQueue' \in Seq(Deliveries) /\ Len(eventQueue') = Len(eventQueue) + 1
        /\ Len(eventQueue) \in Nat
        /\ \A i \in 1..Len(eventQueue) : eventQueue'[i] = eventQueue[i]
        /\ eventQueue'[Len(eventQueue) + 1] = d
        /\ \A i \in 1..Len(eventQueue) + 1 : i = Len(eventQueue) + 1 \/ i \in 1..Len(eventQueue)
    BY <2>1
  <2>3. \A i \in 1..Len(eventQueue) : eventQueue[i] # d /\ eventQueue[i] \in Deliveries
    BY <2>1
  <2>4. eventRunning # d BY <2>1
  <2>5. QueueTypes' BY <2>1, <2>2 DEF QueueTypes
  <2>6. \A i \in 1..Len(eventQueue') : /\ deliveries'[eventQueue'[i]] # NoEvent
                                       /\ eventQueue'[i] # eventRunning'
    BY <2>1, <2>2, <2>3, <2>4
  <2>7. \A i, j \in 1..Len(eventQueue') : eventQueue'[i] = eventQueue'[j] => i = j
    BY <2>2, <2>3
  <2>8. eventRunning' # NoDelivery => deliveries'[eventRunning'] # NoEvent
    BY <2>1, <2>4
  <2> QED BY <2>5, <2>6, <2>7, <2>8
<1>7. ASSUME NEW d \in Deliveries,
             RefuseEvent(d) \/ RecordFails(d) \/ AnswerWithoutCommand(d) \/ CooldownSaveFails(d)
      PROVE QueueKept
  <2>1. AnswerWithout(d)
    BY <1>7 DEF RefuseEvent, RecordFails, AnswerWithoutCommand, CooldownSaveFails
  <2> QED BY <2>1, HeadServed DEF AnswerWithout
<1>8. ASSUME NEW d \in Deliveries, RunCommand(d) PROVE QueueKept
  BY <1>8, HeadServed DEF RunCommand
<1>9. CASE FinishEvent
  <2> USE DEF UnlockTypeOK, WaitsOnce
  <2>1. /\ eventRunning \in Deliveries /\ eventRunning' = NoDelivery /\ eventQueue' = eventQueue
        /\ deliveries' = [deliveries EXCEPT ![eventRunning] = NoEvent]
    BY <1>9 DEF FinishEvent, Answer
  <2>2. \A i \in 1..Len(eventQueue) : eventQueue[i] \in Deliveries /\ eventQueue[i] # eventRunning
    OBVIOUS
  <2>3. QueueTypes' BY <2>1 DEF QueueTypes
  <2>4. \A i \in 1..Len(eventQueue') : /\ deliveries'[eventQueue'[i]] # NoEvent
                                       /\ eventQueue'[i] # eventRunning'
    BY <2>1, <2>2
  <2> QED BY <2>1, <2>3, <2>4
<1>10. CASE UnlockRestart
  BY <1>10 DEF UnlockRestart, QueueTypes, WaitsOnce
<1> QED
  BY <1>2, <1>3, <1>4, <1>5, <1>6, <1>7, <1>8, <1>9, <1>10 DEF UnlockNext, Serve

-----------------------------------------------------------------------------
(* The records: an operation that rewrites the file leaves memory with the  *)
(* new record, and the file with the new one or the one it had.             *)
LEMMA SavedIsSound ==
    ASSUME NEW a, Save(a), NEW fresh, NEW acted, NEW runs,
           Sound(a, fresh, acted, runs), Sound(savedAutomation, fresh, acted, runs)
    PROVE  /\ Sound(automation', fresh, acted, runs) /\ Sound(savedAutomation', fresh, acted, runs)
           /\ saveFailures \in 0..MaxSaveFailures => saveFailures' \in 0..MaxSaveFailures
<1>1. automation' = a /\ savedAutomation' \in {savedAutomation, a}
  BY DEF Save, Saved, SaveFails
<1>2. saveFailures \in 0..MaxSaveFailures => saveFailures' \in 0..MaxSaveFailures
  BY UnlockAssumption DEF Save, Saved, SaveFails
<1> QED BY <1>1, <1>2

\* The event a request carries when it is served.
Served(d) == deliveries[d]

LEMMA ServedIsEvent ==
    ASSUME UnlockInv, NEW d \in Deliveries, HasLock(d)
    PROVE  Served(d) \in PhoneEvents
BY DEF UnlockInv, UnlockTypeOK, WaitsOnce, HasLock, Served

LEMMA RecordedIsSound ==
    ASSUME UnlockInv, NEW e \in PhoneEvents, Authentic(e)
    PROVE  Sound(Recorded(e), unusedIds \cup installing, lastActed, unlocksRun)
BY NewerSequence DEF UnlockInv, UnlockTypeOK, SoundRecords, Authentic, Recorded

RecordsKept ==
    /\ HistoryTypes' /\ saveFailures' \in 0..MaxSaveFailures
    /\ SoundRecords' /\ FreshIsUnheard' /\ UnlockCoolsDown'

(* Every operation keeps both records sound.                                *)
LEMMA RecordStep == UnlockInv /\ [UnlockNext]_unlockVars => RecordsKept
<1> SUFFICES ASSUME UnlockInv, [UnlockNext]_unlockVars PROVE RecordsKept
  OBVIOUS
<1> DEFINE fresh == unusedIds \cup installing
<1>0. /\ Sound(automation, fresh, lastActed, unlocksRun)
      /\ Sound(savedAutomation, fresh, lastActed, unlocksRun)
      /\ HistoryTypes /\ saveFailures \in 0..MaxSaveFailures /\ FreshIsUnheard /\ UnlockCoolsDown
  BY DEF UnlockInv, UnlockTypeOK, SoundRecords, HistoryTypes
<1>a. ASSUME UNCHANGED <<installing, unusedIds, lastActed, unlocksRun>>,
             NEW a, Save(a), Sound(a, fresh, lastActed, unlocksRun)
      PROVE RecordsKept
  <2>1. /\ Sound(automation', fresh, lastActed, unlocksRun)
        /\ Sound(savedAutomation', fresh, lastActed, unlocksRun)
        /\ saveFailures' \in 0..MaxSaveFailures
    BY <1>0, <1>a, SavedIsSound
  <2> QED BY <1>0, <1>a, <2>1
          DEF RecordsKept, SoundRecords, HistoryTypes, FreshIsUnheard, UnlockCoolsDown
<1>1. ASSUME NEW p \in Phones, BeginPairing(p) PROVE RecordsKept
  <2>1. fresh' = fresh /\ UNCHANGED <<automation, savedAutomation, lastActed, unlocksRun,
                                      saveFailures>>
    BY <1>1 DEF BeginPairing
  <2>2. FreshIsUnheard' /\ HistoryTypes'
    BY <1>0, <1>1 DEF BeginPairing, FreshIsUnheard, HistoryTypes
  <2> QED BY <1>0, <2>1, <2>2 DEF RecordsKept, SoundRecords, UnlockCoolsDown
<1>2. ASSUME NEW p \in Phones, AbandonPairing(p) PROVE RecordsKept
  <2>1. UNCHANGED <<automation, savedAutomation, lastActed, unlocksRun, saveFailures>>
        /\ fresh' \in SUBSET fresh
    BY <1>2 DEF AbandonPairing
  <2>2. FreshIsUnheard' /\ HistoryTypes'
    BY <1>0, <1>2 DEF AbandonPairing, FreshIsUnheard, HistoryTypes
  <2> QED BY <1>0, <2>1, <2>2, FewerFresh DEF RecordsKept, SoundRecords, UnlockCoolsDown
<1>3. ASSUME NEW p \in Phones, CommitPairing(p) \/ PairDesktop(p) PROVE RecordsKept
  <2>1. /\ p \in fresh /\ HasCapacity(automation) /\ Save(WithPhone(automation, p))
        /\ UNCHANGED <<lastActed, unlocksRun>>
        /\ fresh' = fresh \ {p}
    BY <1>0, <1>3 DEF CommitPairing, PairDesktop, MayCommit, FreshIsUnheard
  <2>2. lastActed[p] = 0 /\ unlocksRun[p] = 0 /\ lastActed \in [Phones -> Nat]
    BY <1>0, <2>1 DEF FreshIsUnheard, HistoryTypes
  <2>3. Sound(WithPhone(automation, p), fresh \ {p}, lastActed, unlocksRun)
    BY <1>0, <2>1, <2>2, OnePhoneMore
  <2>4. Sound(savedAutomation, fresh \ {p}, lastActed, unlocksRun)
    BY <1>0, FewerFresh
  <2>5. /\ Sound(automation', fresh \ {p}, lastActed, unlocksRun)
        /\ Sound(savedAutomation', fresh \ {p}, lastActed, unlocksRun)
        /\ saveFailures' \in 0..MaxSaveFailures
    BY <1>0, <2>1, <2>3, <2>4, SavedIsSound
  <2>6. FreshIsUnheard' /\ HistoryTypes'
    BY <1>0, <1>3 DEF CommitPairing, PairDesktop, FreshIsUnheard, HistoryTypes
  <2> QED BY <1>0, <2>1, <2>5, <2>6 DEF RecordsKept, SoundRecords, UnlockCoolsDown
<1>4. CASE RemoveCompanions
  <2> DEFINE b == [automation EXCEPT !.enabled = FALSE, !.primary = NoPhone, !.remotes = {},
                                     !.cooling = FALSE, !.sequence = [p \in Phones |-> 0]]
  <2>1. b \in Automation /\ b.primary = NoPhone /\ b.remotes = {} /\ ~b.enabled
    BY <1>0 DEF Sound, Automation
  <2>2. Save(b) /\ UNCHANGED <<installing, unusedIds, lastActed, unlocksRun>>
    BY <1>4 DEF RemoveCompanions
  <2> HIDE DEF b
  <2>3. Sound(b, fresh, lastActed, unlocksRun) BY <2>1, NoPhones
  <2> QED BY <1>a, <2>2, <2>3
<1>5. ASSUME NEW enabled \in BOOLEAN, NEW chosen \in BOOLEAN, Configure(enabled, chosen)
      PROVE RecordsKept
  <2>1. Sound([automation EXCEPT !.enabled = enabled, !.chosen = chosen], fresh, lastActed,
              unlocksRun)
    BY <1>0, <1>5, Reconfigured DEF Configure
  <2> QED BY <1>5, <1>a, <2>1 DEF Configure
<1>6. ASSUME NEW d \in Deliveries, NEW e \in PhoneEvents, ReceiveEvent(d, e) PROVE RecordsKept
  BY <1>0, <1>6 DEF ReceiveEvent, RecordsKept, SoundRecords, HistoryTypes, FreshIsUnheard,
                    UnlockCoolsDown
<1>7. ASSUME NEW e \in PhoneEvents, AnswerStatePoll(e) PROVE RecordsKept
  BY <1>7, <1>a, RecordedIsSound DEF AnswerStatePoll
<1>8. ASSUME NEW d \in Deliveries, RefuseEvent(d) PROVE RecordsKept
  BY <1>0, <1>8 DEF RefuseEvent, AnswerWithout, RecordsKept, SoundRecords, HistoryTypes,
                    FreshIsUnheard, UnlockCoolsDown
<1>9. ASSUME NEW d \in Deliveries, RecordFails(d) \/ AnswerWithoutCommand(d) PROVE RecordsKept
  <2>1. /\ HasLock(d) /\ Authentic(Served(d)) /\ Save(Recorded(Served(d)))
        /\ UNCHANGED <<installing, unusedIds, lastActed, unlocksRun>>
    BY <1>9 DEF RecordFails, AnswerWithoutCommand, AnswerWithout, Save, Served
  <2>2. Sound(Recorded(Served(d)), fresh, lastActed, unlocksRun)
    BY <2>1, ServedIsEvent, RecordedIsSound
  <2> QED BY <1>a, <2>1, <2>2
<1>10. ASSUME NEW d \in Deliveries, CooldownSaveFails(d) PROVE RecordsKept
  <2> DEFINE e == Served(d)
  <2>1. /\ HasLock(d) /\ Authentic(e) /\ e.kind = "unlock"
        /\ UNCHANGED <<installing, unusedIds, lastActed, unlocksRun>>
        /\ automation' = Cooled(e) /\ savedAutomation' \in {Recorded(e), Cooled(e)}
        /\ saveFailures' \in 0..MaxSaveFailures
    BY <1>0, <1>10, UnlockAssumption DEF CooldownSaveFails, AnswerWithout, Served
  <2>2. Sound(Recorded(e), fresh, lastActed, unlocksRun)
    BY <2>1, ServedIsEvent, RecordedIsSound
  <2>3. Sound(Cooled(e), fresh, lastActed, unlocksRun)
    BY <2>1, <2>2, CoolingOn DEF Cooled
  <2> QED BY <1>0, <2>1, <2>2, <2>3
          DEF RecordsKept, SoundRecords, HistoryTypes, FreshIsUnheard, UnlockCoolsDown
<1>11. ASSUME NEW d \in Deliveries, RunCommand(d) PROVE RecordsKept
  <2>1. PICK e \in PhoneEvents : e = Served(d)
    BY <1>11, ServedIsEvent DEF RunCommand
  <2>2. /\ Authentic(e) /\ Runnable(e) /\ Saved(Cooled(e))
        /\ UNCHANGED <<installing, unusedIds>>
        /\ lastActed' = [lastActed EXCEPT ![e.phone] = e.sequence]
        /\ unlocksRun' = IF e.kind = "unlock" THEN [unlocksRun EXCEPT ![e.phone] = @ + 1]
                                              ELSE unlocksRun
    BY <1>11, <2>1 DEF RunCommand, Served
  <2>3. /\ e.phone \in Phones /\ e.sequence \in Nat
        /\ lastActed \in [Phones -> Nat] /\ unlocksRun \in [Phones -> Nat]
        /\ automation \in Automation
    BY <1>0, UnlockAssumption DEF HistoryTypes, Sound
  <2>4. e.phone \in Paired(automation)
    BY <2>2, <2>3, UnlockAssumption DEF Authentic, Paired
  <2>5. Sound(Recorded(e), fresh, lastActed, unlocksRun)
    BY <2>2, RecordedIsSound
  <2>6. /\ Recorded(e).sequence = [automation.sequence EXCEPT ![e.phone] = e.sequence]
        /\ Recorded(e).primary = automation.primary /\ Recorded(e).cooling = automation.cooling
    BY <2>3 DEF Recorded, Automation
  <2>7. e.phone \notin fresh /\ Paired(Recorded(e)) \subseteq Phones
    BY <1>0, <2>4, <2>5, PairedPhones DEF Sound
  <2>8. Sound(Recorded(e), fresh, lastActed', unlocksRun)
    <3>1. ASSUME NEW p \in Paired(Recorded(e))
          PROVE p \notin fresh /\ lastActed'[p] <= Recorded(e).sequence[p]
      <4>1. p \in Phones /\ p \notin fresh /\ lastActed[p] <= Recorded(e).sequence[p]
        BY <2>5, <2>7, <3>1 DEF Sound
      <4>2. automation.sequence \in [Phones -> Nat] BY <2>3 DEF Automation
      <4>3. CASE p = e.phone BY <2>2, <2>3, <2>6, <4>1, <4>2, <4>3
      <4>4. CASE p # e.phone BY <2>2, <2>3, <4>1, <4>4
      <4> QED BY <4>1, <4>3, <4>4
    <3> QED BY <2>5, <3>1 DEF Sound
  <2>9. CASE e.kind = "unlock"
    <3>1. automation.primary = e.phone /\ ~automation.cooling /\ e.phone # NoPhone
      BY <2>2, <2>3, <2>9, UnlockAssumption DEF Authentic, Runnable
    <3>2. unlocksRun[e.phone] = 0 BY <1>0, <3>1 DEF Sound
    <3>3. Cooled(e) = [Recorded(e) EXCEPT !.cooling = TRUE] BY <2>9 DEF Cooled
    <3>4. Sound(Cooled(e), fresh, lastActed', unlocksRun') BY <2>8, <3>3, CoolingOn
    <3>5. UnlockCoolsDown' BY <1>0, <2>2, <2>3, <3>2 DEF UnlockCoolsDown
    <3>6. FreshIsUnheard' BY <1>0, <2>2, <2>3, <2>7 DEF FreshIsUnheard
    <3>7. HistoryTypes' BY <1>0, <2>2, <2>3 DEF HistoryTypes
    <3> QED BY <1>0, <2>2, <3>4, <3>5, <3>6, <3>7 DEF RecordsKept, SoundRecords, Saved
  <2>10. CASE e.kind # "unlock"
    <3>1. Cooled(e) = Recorded(e) /\ unlocksRun' = unlocksRun BY <2>2, <2>10 DEF Cooled
    <3>2. FreshIsUnheard' BY <1>0, <2>2, <2>3, <2>7, <3>1 DEF FreshIsUnheard
    <3>3. HistoryTypes' BY <1>0, <2>2, <2>3, <3>1 DEF HistoryTypes
    <3> QED BY <1>0, <2>2, <2>8, <3>1, <3>2, <3>3
            DEF RecordsKept, SoundRecords, Saved, UnlockCoolsDown
  <2> QED BY <2>9, <2>10
<1>12. CASE FinishEvent
  <2>1. UNCHANGED <<installing, unusedIds, lastActed, unlocksRun>>
    BY <1>12 DEF FinishEvent
  <2>2. CASE Save(automation) BY <1>0, <1>a, <2>1, <2>2
  <2>3. CASE UNCHANGED <<automation, savedAutomation, saveFailures>>
    BY <1>0, <2>1, <2>3 DEF RecordsKept, SoundRecords, HistoryTypes, FreshIsUnheard, UnlockCoolsDown
  <2> QED BY <1>12, <2>2, <2>3 DEF FinishEvent
<1>13. CASE CooldownLapses
  <2>1. /\ Sound(automation', fresh, lastActed, [p \in Phones |-> 0])
        /\ Sound(savedAutomation', fresh, lastActed, [p \in Phones |-> 0])
    BY <1>0, <1>13, CoolingOff DEF CooldownLapses
  <2>2. /\ UNCHANGED <<installing, unusedIds, lastActed, saveFailures>>
        /\ unlocksRun' = [p \in Phones |-> 0]
    BY <1>13 DEF CooldownLapses
  <2> QED BY <1>0, <2>1, <2>2
          DEF RecordsKept, SoundRecords, HistoryTypes, FreshIsUnheard, UnlockCoolsDown
<1>14. CASE UnlockRestart
  <2>1. /\ automation' = savedAutomation /\ savedAutomation' = savedAutomation
        /\ unusedIds' = unusedIds /\ installing' = {}
        /\ UNCHANGED <<lastActed, unlocksRun, saveFailures>>
        /\ fresh' = unusedIds /\ unusedIds \in SUBSET fresh
    BY <1>14 DEF UnlockRestart
  <2>2. Sound(savedAutomation, unusedIds, lastActed, unlocksRun)
    BY <1>0, <2>1, FewerFresh
  <2>3. FreshIsUnheard' /\ HistoryTypes' BY <1>0, <2>1 DEF FreshIsUnheard, HistoryTypes
  <2> QED BY <1>0, <2>1, <2>2, <2>3 DEF RecordsKept, SoundRecords, UnlockCoolsDown
<1>15. CASE UNCHANGED unlockVars
  BY <1>0, <1>15 DEF unlockVars, RecordsKept, SoundRecords, HistoryTypes, FreshIsUnheard,
                     UnlockCoolsDown
<1> QED
  BY <1>1, <1>2, <1>3, <1>4, <1>5, <1>6, <1>7, <1>8, <1>9, <1>10, <1>11, <1>12, <1>13,
     <1>14, <1>15 DEF UnlockNext, Serve

-----------------------------------------------------------------------------
LEMMA UnlockInvInit == UnlockInit => UnlockInv
<1> SUFFICES ASSUME UnlockInit PROVE UnlockInv
  OBVIOUS
<1> USE UnlockAssumption DEF UnlockInit
<1>1. NewAutomation \in Automation BY DEF NewAutomation, Automation
<1>2. UnlockTypeOK
  <2>1. eventQueue \in Seq(Deliveries) OBVIOUS
  <2>2. saveFailures \in 0..MaxSaveFailures OBVIOUS
  <2> QED BY <1>1, <2>1, <2>2 DEF UnlockTypeOK
<1>3. SoundRecords
  BY <1>1, NoPhones DEF SoundRecords, NewAutomation
<1> QED BY <1>2, <1>3 DEF UnlockInv, UnlockCoolsDown, FreshIsUnheard, WaitsOnce

LEMMA UnlockInvStep == UnlockInv /\ [UnlockNext]_unlockVars => UnlockInv'
<1> SUFFICES ASSUME UnlockInv, [UnlockNext]_unlockVars PROVE UnlockInv'
  OBVIOUS
<1>1. QueueTypes' /\ WaitsOnce' BY QueueStep
<1>2. RecordsKept BY RecordStep
<1>3. UnlockTypeOK'
  BY <1>1, <1>2 DEF RecordsKept, QueueTypes, HistoryTypes, SoundRecords, Sound, UnlockTypeOK
<1> QED BY <1>1, <1>2, <1>3 DEF RecordsKept, UnlockInv

(* The gateway never keeps more phones than it may, and a phone's unlock    *)
(* commands the plugs at most once in a cooldown, whatever installs run     *)
(* side by side, whichever writes fail, and whenever it restarts.           *)
THEOREM PhonesAreKeptHolds == UnlockSpec => []PhonesAreKept
<1>1. UnlockInv => PhonesAreKept
  BY DEF UnlockInv, PhonesAreKept, SoundRecords, Sound, KeepsPhones, PairingsAreBounded
<1> QED BY UnlockInvInit, UnlockInvStep, <1>1, PTL DEF UnlockSpec

(* A phone's commands run in the order of their sequence numbers and never  *)
(* twice, over failed writes and restarts.                                  *)
THEOREM PhoneEventsInOrderHolds == UnlockSpec => PhoneEventsInOrder
<1> DEFINE Ordered == eventRunning' \notin {eventRunning, NoDelivery}
                        => LET e == deliveries[eventRunning']
                           IN e.sequence > lastActed[e.phone]
<1>1. ASSUME UnlockInv, [UnlockNext]_unlockVars PROVE [Ordered]_unlockVars
  <2> SUFFICES ASSUME eventRunning' \notin {eventRunning, NoDelivery} PROVE Ordered
    OBVIOUS
  <2>1. PICK d \in Deliveries : RunCommand(d)
    BY <1>1 DEF UnlockNext, unlockVars, BeginPairing, CommitPairing, AbandonPairing,
       PairDesktop, RemoveCompanions, Configure, ReceiveEvent, AnswerStatePoll, Serve,
       RefuseEvent, RecordFails, AnswerWithoutCommand, CooldownSaveFails, AnswerWithout,
       FinishEvent, CooldownLapses, UnlockRestart
  <2>2. PICK e \in PhoneEvents : e = Served(d)
    BY <1>1, <2>1, ServedIsEvent DEF RunCommand
  <2>3. /\ Authentic(e) /\ eventRunning' = d /\ deliveries[eventRunning'] = e
    BY <2>1, <2>2 DEF RunCommand, Served
  <2>4. e.phone \in Paired(automation) /\ e.phone \in Phones /\ e.sequence \in Nat
    BY <2>3, UnlockAssumption DEF Authentic, Paired
  <2>5. /\ lastActed[e.phone] <= automation.sequence[e.phone]
        /\ lastActed[e.phone] \in Nat /\ automation.sequence[e.phone] \in Nat
    BY <1>1, <2>4 DEF UnlockInv, UnlockTypeOK, SoundRecords, Sound, Automation
  <2>6. e.sequence > automation.sequence[e.phone] BY <2>3 DEF Authentic
  <2> QED BY <2>3, <2>4, <2>5, <2>6
<1> QED BY UnlockInvInit, UnlockInvStep, <1>1, PTL DEF UnlockSpec, PhoneEventsInOrder

-----------------------------------------------------------------------------
(* The group of plugs: what a run has asked of a plug stays so until it is  *)
(* answered, whatever the plug does with its orders, and a session that     *)
(* covers a group is found by the next run that needs it.                   *)

\* What a run neither failed nor waits for was asked to take its value.
AskedSoFar ==
    groupRun # NoRun
      => \A p \in groupRun.targets :
             \/ p \in groupRun.pending \cup groupRun.sending \cup groupRun.failed
             \/ TakesValue(p, groupRun.on)

\* A plug that has done what it was asked has no order left.
DoneAtRest == \A p \in Plugs : plugOutcome[p] = "done" => Len(plugOrders[p]) = 0

PlugInv == PlugTypeOK /\ OneSessionPerGroup /\ DoneAtRest /\ AskedSoFar

\* Two whole sessions of one phone for one group, both still usable later.
Twins(s, t) == /\ s.owner = t.owner /\ s.whole /\ t.whole /\ s.bound = t.bound
               /\ s.phase # "ended" /\ t.phase # "ended"

\* t is s after a transition: nothing revives a session that ended.
Follows(t, s) == /\ t \in PlugSession
                 /\ t.owner = s.owner /\ t.bound = s.bound /\ t.whole = s.whole
                 /\ s.phase = "ended" => t.phase = "ended"

LEMMA PreparedFollows ==
    ASSUME NEW s \in PlugSession, s.phase # "ended" PROVE Follows(Prepared(s), s)
BY DEF Prepared, PlugSession, Follows

LEMMA PartlyFollows ==
    ASSUME NEW s \in PlugSession, s.phase # "ended", NEW t \in PartlyPrepared(s)
    PROVE  Follows(t, s)
<1> DEFINE paused == IF s.phase = "active" /\ ~s.armed THEN [s EXCEPT !.phase = "paused"] ELSE s
           rearmed == IF paused.phase \in {"ready", "paused"} THEN [paused EXCEPT !.armed = TRUE]
                                                             ELSE paused
<1>1. Follows(s, s) BY DEF Follows
<1>2. Follows(paused, s) /\ paused.phase # "ended" BY DEF PlugSession, Follows
<1>3. Follows(rearmed, s)
  <2> HIDE DEF paused
  <2>1. [paused EXCEPT !.armed = TRUE] \in PlugSession BY <1>2 DEF PlugSession, Follows
  <2> QED BY <1>2, <2>1 DEF PlugSession, Follows
<1>4. t \in {s, paused, rearmed} BY DEF PartlyPrepared
<1> QED BY <1>1, <1>2, <1>3, <1>4

\* Transitions of sessions in place keep them one to a group.
LEMMA FollowersAreSingle ==
    ASSUME PlugTypeOK, OneSessionPerGroup, plugSessions' \in Seq(PlugSession),
           DOMAIN plugSessions' = DOMAIN plugSessions,
           \A i \in DOMAIN plugSessions : Follows(plugSessions'[i], plugSessions[i])
    PROVE  OneSessionPerGroup'
BY DEF OneSessionPerGroup, Follows

LEMMA ChangeFollows ==
    ASSUME PlugTypeOK, OneSessionPerGroup, NEW i \in DOMAIN plugSessions, NEW t,
           Follows(t, plugSessions[i]), plugSessions' = [plugSessions EXCEPT ![i] = t]
    PROVE  /\ plugSessions' \in Seq(PlugSession)
           /\ DOMAIN plugSessions' = DOMAIN plugSessions
           /\ OneSessionPerGroup'
<1>1. t \in PlugSession BY DEF Follows
<1>2. plugSessions \in Seq(PlugSession) BY DEF PlugTypeOK
<1>3. plugSessions' \in Seq(PlugSession) /\ DOMAIN plugSessions' = DOMAIN plugSessions
  BY <1>1, <1>2
<1>4. ASSUME NEW j \in DOMAIN plugSessions PROVE Follows(plugSessions'[j], plugSessions[j])
  <2>1. plugSessions[j] \in PlugSession BY <1>2
  <2> QED BY <2>1, <1>2 DEF Follows
<1> QED BY <1>3, <1>4, FollowersAreSingle

\* A session is added only when no other of its phone covers what it binds.
LEMMA AddedIsSingle ==
    ASSUME PlugTypeOK, OneSessionPerGroup, NEW a \in Actors, NEW wanted \in SUBSET plugOnline,
           NEW bound \in SUBSET wanted, NoneUsable(a, wanted), NEW t,
           Follows(t, NewSession(a, bound, wanted)),
           plugSessions' = Append(plugSessions, t)
    PROVE  /\ plugSessions' \in Seq(PlugSession)
           /\ DOMAIN plugSessions \subseteq DOMAIN plugSessions'
           /\ Len(plugSessions) + 1 \in DOMAIN plugSessions'
           /\ OneSessionPerGroup'
<1> DEFINE n == Len(plugSessions) + 1
<1>1. plugSessions \in Seq(PlugSession) /\ t \in PlugSession BY DEF PlugTypeOK, Follows
<1>2. /\ plugSessions' \in Seq(PlugSession) /\ DOMAIN plugSessions' = 1..n
      /\ DOMAIN plugSessions = 1..(n - 1) /\ n \in Nat \ {0}
      /\ plugSessions'[n] = t /\ \A i \in 1..(n - 1) : plugSessions'[i] = plugSessions[i]
  BY <1>1
<1>3. t.owner = a /\ t.bound = bound /\ (t.whole => bound = wanted)
  BY DEF NewSession, Follows
<1>4. ASSUME NEW i \in DOMAIN plugSessions PROVE ~Twins(plugSessions[i], t)
  BY <1>3, <1>4 DEF NoneUsable, Usable, Twins
<1>5. ASSUME NEW i \in DOMAIN plugSessions', NEW j \in DOMAIN plugSessions', i # j
      PROVE ~Twins(plugSessions'[i], plugSessions'[j])
  <2>1. CASE i = n BY <1>2, <1>4, <1>5, <2>1 DEF Twins
  <2>2. CASE j = n BY <1>2, <1>4, <1>5, <2>2
  <2>3. CASE i # n /\ j # n
    <3>1. i \in DOMAIN plugSessions /\ j \in DOMAIN plugSessions BY <1>2, <1>5, <2>3
    <3> QED BY <1>2, <1>5, <3>1 DEF OneSessionPerGroup, Twins
  <2> QED BY <2>1, <2>2, <2>3
<1> QED BY <1>2, <1>5 DEF OneSessionPerGroup, Twins

\* A run that begins has everything still to do, but what it failed already.
LEMMA Begun ==
    ASSUME PlugTypeOK, NEW i \in DOMAIN plugSessions', plugSessions' \in Seq(PlugSession),
           NEW request, NEW targets \in SUBSET Plugs, Begin(i, request, targets),
           UNCHANGED <<plugOnline, plugReported, relayVars, plugMishaps>>
    PROVE  PlugTypeOK' /\ AskedSoFar'
<1>1. Desired(request, targets) \in BOOLEAN BY DEF Desired
<1>2. groupRun' \in Run /\ groupRun'.session = i BY <1>1 DEF Begin, Run, Actionable, Absent
<1>3. PlugTypeOK' BY <1>2 DEF PlugTypeOK, relayVars
<1>4. AskedSoFar' BY DEF Begin, Actionable, Absent, AskedSoFar
<1> QED BY <1>3, <1>4

LEMMA CountedMishap ==
    ASSUME PlugTypeOK, Mishap PROVE plugMishaps' \in 0..MaxPlugMishaps
BY PlugAssumption DEF PlugTypeOK, Mishap

\* What only touches the sessions keeps a run as it is.
LEMMA SessionsOnly ==
    ASSUME PlugTypeOK, AskedSoFar, plugSessions' \in Seq(PlugSession),
           DOMAIN plugSessions \subseteq DOMAIN plugSessions',
           Mishap, UNCHANGED <<plugOnline, plugReported, relayVars, groupRun>>
    PROVE  PlugTypeOK' /\ AskedSoFar'
<1>1. plugMishaps' \in 0..MaxPlugMishaps BY CountedMishap
<1> QED BY <1>1 DEF PlugTypeOK, AskedSoFar, TakesValue, relayVars

LEMMA PlugInvInit == PlugInit => PlugInv
BY PlugAssumption DEF PlugInit, PlugInv, PlugTypeOK, Reading, OrderOutcomes, OneSessionPerGroup,
                      DoneAtRest, AskedSoFar

\* What a step of its own makes of a run.
LEMMA RunGoesOn ==
    ASSUME NEW p, SubmitToPlug(p) \/ HandOver(p), groupRun \in Run
    PROVE  /\ groupRun' \in Run /\ groupRun'.session = groupRun.session
           /\ groupRun'.targets = groupRun.targets /\ groupRun'.on = groupRun.on
           /\ groupRun'.pending \cup groupRun'.sending \cup groupRun'.failed \cup {p}
                = groupRun.pending \cup groupRun.sending \cup groupRun.failed
           /\ \/ /\ p \in groupRun'.pending \cup groupRun'.sending \cup groupRun'.failed
                 /\ UNCHANGED relayVars
              \/ /\ plugOrders' = [plugOrders EXCEPT ![p] = Append(@, groupRun.on)]
                 /\ plugOutcome' = [plugOutcome EXCEPT ![p] = "asked"]
                 /\ plugLit' = plugLit
<1>1. /\ groupRun.pending \subseteq Plugs /\ groupRun.sending \subseteq Plugs
      /\ groupRun.failed \subseteq Plugs
  BY DEF Run
<1>2. CASE SubmitToPlug(p)
  <2>1. p \in groupRun.pending /\ UNCHANGED relayVars BY <1>2 DEF SubmitToPlug
  <2>2. CASE groupRun' = [groupRun EXCEPT !.pending = @ \ {p}, !.sending = @ \cup {p}]
    BY <1>1, <2>1, <2>2 DEF Run
  <2>3. CASE groupRun' = [groupRun EXCEPT !.pending = @ \ {p}, !.failed = @ \cup {p}]
    BY <1>1, <2>1, <2>3 DEF Run
  <2> QED BY <1>2, <2>2, <2>3 DEF SubmitToPlug
<1>3. CASE HandOver(p)
  <2>1. p \in groupRun.sending BY <1>3 DEF HandOver
  <2>2. CASE /\ groupRun' = [groupRun EXCEPT !.sending = @ \ {p}]
             /\ plugOrders' = [plugOrders EXCEPT ![p] = Append(@, groupRun.on)]
             /\ plugOutcome' = [plugOutcome EXCEPT ![p] = "asked"]
             /\ plugLit' = plugLit
    BY <1>1, <2>1, <2>2 DEF Run
  <2>3. CASE /\ groupRun' = [groupRun EXCEPT !.sending = @ \ {p}, !.failed = @ \cup {p}]
             /\ UNCHANGED relayVars
    BY <1>1, <2>1, <2>3 DEF Run
  <2> QED BY <1>3, <2>2, <2>3 DEF HandOver, Undelivered, relayVars
<1> QED BY <1>2, <1>3

\* The relays, and the orders on the way to them.
RelayOK == /\ plugLit \in [Plugs -> BOOLEAN]
           /\ plugOrders \in [Plugs -> Seq(BOOLEAN)]
           /\ plugOutcome \in [Plugs -> OrderOutcomes]
           /\ DoneAtRest

\* An order that is dealt with was the last one, or the last one is still there.
LEMMA OldestDealtWith ==
    ASSUME NEW orders \in Seq(BOOLEAN), orders # <<>>
    PROVE  /\ Head(orders) \in BOOLEAN /\ Tail(orders) \in Seq(BOOLEAN)
           /\ Len(orders) = 1 => Len(Tail(orders)) = 0 /\ orders[Len(orders)] = Head(orders)
           /\ Len(orders) # 1 => /\ Tail(orders) # <<>>
                                 /\ Tail(orders)[Len(Tail(orders))] = orders[Len(orders)]
<1>1. Len(orders) \in Nat \ {0} OBVIOUS
<1>2. CASE Len(orders) = 1
  <2>1. Tail(orders) \in Seq(BOOLEAN) /\ Len(Tail(orders)) = 0 BY <1>1, <1>2
  <2> QED BY <1>1, <1>2, <2>1
<1>3. CASE Len(orders) # 1
  <2>1. /\ Len(Tail(orders)) = Len(orders) - 1 /\ Len(Tail(orders)) \in Nat \ {0}
        /\ Len(Tail(orders)) # 0
    BY <1>1, <1>3
  <2>2. Tail(orders)[Len(Tail(orders))] = orders[Len(Tail(orders)) + 1] BY <2>1
  <2>3. Tail(orders) # <<>>
    <3>1. Len(<<>>) = 0 OBVIOUS
    <3> QED BY <2>1, <3>1, Zenon
  <2> QED BY <1>1, <1>3, <2>1, <2>2, <2>3
<1> QED BY <1>2, <1>3

\* What the plugs do keeps what a run has asked of them.
LEMMA PlugsKeepAsked ==
    ASSUME RelayOK, NEW p \in Plugs,
           PlugObeys(p) \/ PlugRefuses(p) \/ PlugSwitchesItself(p) \/ PlugLost(p)
    PROVE  /\ RelayOK'
           /\ \A q \in Plugs, on \in BOOLEAN : TakesValue(q, on) => TakesValue(q, on)'
<1>1. plugLit' \in [Plugs -> BOOLEAN]
  <2>1. plugOrders[p] # <<>> => Head(plugOrders[p]) \in BOOLEAN
    BY OldestDealtWith DEF RelayOK
  <2>2. \/ plugLit' = plugLit
        \/ plugLit' = [plugLit EXCEPT ![p] = ~@]
        \/ Head(plugOrders[p]) \in BOOLEAN /\ plugLit' = [plugLit EXCEPT ![p] = Head(plugOrders[p])]
    BY <2>1 DEF PlugObeys, PlugRefuses, PlugSwitchesItself, PlugLost
  <2>3. CASE plugLit' = plugLit BY <2>3 DEF RelayOK
  <2>4. CASE plugLit' = [plugLit EXCEPT ![p] = ~@]
    <3>1. plugLit \in [Plugs -> BOOLEAN] /\ (~plugLit[p]) \in BOOLEAN BY DEF RelayOK
    <3> QED BY <2>4, <3>1, Zenon
  <2>5. CASE Head(plugOrders[p]) \in BOOLEAN /\ plugLit' = [plugLit EXCEPT ![p] = Head(plugOrders[p])]
    <3>1. plugLit \in [Plugs -> BOOLEAN] BY DEF RelayOK
    <3> QED BY <2>5, <3>1, Zenon
  <2> QED BY <2>2, <2>3, <2>4, <2>5
<1>2. plugOrders' \in [Plugs -> Seq(BOOLEAN)]
  <2>1. plugOrders \in [Plugs -> Seq(BOOLEAN)] /\ <<>> \in Seq(BOOLEAN) BY DEF RelayOK
  <2>2. plugOrders[p] # <<>> => Tail(plugOrders[p]) \in Seq(BOOLEAN) BY <2>1, OldestDealtWith
  <2>3. \/ plugOrders' = plugOrders
        \/ plugOrders' = [plugOrders EXCEPT ![p] = <<>>]
        \/ Tail(plugOrders[p]) \in Seq(BOOLEAN) /\ plugOrders' = [plugOrders EXCEPT ![p] = Tail(@)]
    BY <2>2 DEF PlugObeys, PlugRefuses, PlugSwitchesItself, PlugLost
  <2> QED BY <2>1, <2>3
<1>3. plugOutcome' \in [Plugs -> OrderOutcomes]
  <2>1. plugOutcome \in [Plugs -> OrderOutcomes] /\ plugOutcome[p] \in OrderOutcomes BY DEF RelayOK
  <2>2. PICK now \in OrderOutcomes : plugOutcome' = [plugOutcome EXCEPT ![p] = now]
    BY <2>1 DEF OrderOutcomes, PlugObeys, PlugRefuses, PlugSwitchesItself, PlugLost, Settled, Undone
  <2> QED BY <2>1, <2>2
<1>4. ASSUME NEW q \in Plugs, NEW on \in BOOLEAN, TakesValue(q, on) PROVE TakesValue(q, on)'
  <2>1. CASE q # p
    <3>1. /\ plugLit'[q] = plugLit[q] /\ plugOrders'[q] = plugOrders[q]
          /\ plugOutcome'[q] = plugOutcome[q]
      BY <2>1 DEF RelayOK, PlugObeys, PlugRefuses, PlugSwitchesItself, PlugLost, Settled, Undone
    <3> QED BY <1>4, <3>1 DEF TakesValue
  <2>2. CASE q = p /\ (PlugObeys(p) \/ PlugRefuses(p))
    <3>1. plugOrders[p] \in Seq(BOOLEAN) /\ plugOrders[p] # <<>> /\ plugOutcome[p] \in OrderOutcomes
      BY <2>2 DEF RelayOK, PlugObeys, PlugRefuses
    <3>2. plugOrders'[p] = Tail(plugOrders[p]) BY <2>2 DEF RelayOK, PlugObeys, PlugRefuses
    <3>3. CASE plugOutcome[p] = "asked" /\ Len(plugOrders[p]) = 1
      <4>1. Head(plugOrders[p]) = on
        BY <1>4, <2>2, <3>1, <3>3, OldestDealtWith DEF TakesValue
      <4>2. \/ plugOutcome'[p] = "done" /\ plugLit'[p] = Head(plugOrders[p])
            \/ plugOutcome'[p] = "astray"
        BY <2>2, <3>3 DEF RelayOK, PlugObeys, PlugRefuses, Settled
      <4> QED BY <2>2, <4>1, <4>2 DEF TakesValue
    <3>4. CASE plugOutcome[p] = "asked" /\ Len(plugOrders[p]) # 1
      <4>1. plugOutcome'[p] = "asked"
        BY <2>2, <3>4 DEF RelayOK, PlugObeys, PlugRefuses, Settled
      <4>2. plugOrders'[p] # <<>> /\ plugOrders'[p][Len(plugOrders'[p])] = on
        BY <1>4, <2>2, <3>1, <3>2, <3>4, OldestDealtWith DEF TakesValue
      <4> QED BY <2>2, <4>1, <4>2 DEF TakesValue
    <3>5. CASE plugOutcome[p] = "done" BY <3>1, <3>5 DEF RelayOK, DoneAtRest
    <3>6. CASE plugOutcome[p] = "astray"
      <4>1. plugOutcome'[p] = "astray"
        BY <2>2, <3>6 DEF RelayOK, PlugObeys, PlugRefuses, Settled
      <4> QED BY <2>2, <4>1 DEF TakesValue
    <3> QED BY <1>4, <2>2, <3>1, <3>3, <3>4, <3>5, <3>6 DEF TakesValue, OrderOutcomes
  <2>3. CASE q = p /\ PlugSwitchesItself(p)
    <3>1. /\ plugOutcome'[p] = IF plugOutcome[p] = "done" THEN "astray" ELSE plugOutcome[p]
          /\ plugOrders' = plugOrders
      BY <2>3 DEF RelayOK, PlugSwitchesItself, Undone
    <3> QED BY <1>4, <2>3, <3>1 DEF TakesValue
  <2>4. CASE q = p /\ PlugLost(p)
    <3>1. /\ plugOutcome'[p] = IF plugOutcome[p] = "asked" THEN "astray" ELSE plugOutcome[p]
          /\ plugLit' = plugLit
      BY <2>4 DEF RelayOK, PlugLost
    <3> QED BY <1>4, <2>4, <3>1 DEF TakesValue
  <2> QED BY <2>1, <2>2, <2>3, <2>4
<1>5. DoneAtRest'
  <2> SUFFICES ASSUME NEW q \in Plugs, plugOutcome'[q] = "done"
                 PROVE  Len(plugOrders'[q]) = 0
    BY DEF DoneAtRest
  <2>1. CASE q # p
    BY <2>1 DEF RelayOK, DoneAtRest, PlugObeys, PlugRefuses, PlugSwitchesItself, PlugLost,
                Settled, Undone
  <2>2. CASE q = p /\ PlugObeys(p)
    <3>1. plugOutcome[p] # "done" BY <2>2 DEF RelayOK, DoneAtRest, PlugObeys
    <3>2. Len(plugOrders[p]) = 1 /\ plugOrders'[p] = Tail(plugOrders[p])
      BY <2>2, <3>1 DEF RelayOK, PlugObeys, Settled
    <3>3. plugOrders[p] \in Seq(BOOLEAN) BY DEF RelayOK
    <3>4. Len(Tail(plugOrders[p])) = 0 BY <2>2, <3>2, <3>3, OldestDealtWith DEF PlugObeys
    <3> QED BY <2>2, <3>2, <3>4
  <2>3. CASE q = p /\ (PlugRefuses(p) \/ PlugSwitchesItself(p) \/ PlugLost(p))
    BY <2>3 DEF RelayOK, DoneAtRest, PlugRefuses, PlugSwitchesItself, PlugLost, Settled, Undone
  <2> QED BY <2>1, <2>2, <2>3
<1> QED BY <1>1, <1>2, <1>3, <1>4, <1>5 DEF RelayOK

\* Losing a plug ends sessions in place.
LEMMA LosingKeepsSessions ==
    ASSUME PlugTypeOK, OneSessionPerGroup, NEW p \in Plugs, PlugLost(p)
    PROVE  /\ plugSessions' \in Seq(PlugSession) /\ DOMAIN plugSessions' = DOMAIN plugSessions
           /\ OneSessionPerGroup'
<1> DEFINE After(s) ==
      IF s.armed /\ p \in s.bound
      THEN [s EXCEPT !.armed = FALSE, !.phase = IF @ = "active" THEN "ended" ELSE @]
      ELSE s
<1>0. /\ plugSessions \in Seq(PlugSession)
      /\ \A i \in DOMAIN plugSessions : plugSessions[i] \in PlugSession
  BY DEF PlugTypeOK
<1>1. plugSessions' = [i \in DOMAIN plugSessions |-> After(plugSessions[i])]
  BY DEF PlugLost, SessionsWithout
<1>2. ASSUME NEW s \in PlugSession PROVE Follows(After(s), s)
  BY <1>2 DEF PlugSession, Follows
<1>3. ASSUME NEW i \in DOMAIN plugSessions PROVE Follows(plugSessions'[i], plugSessions[i])
  <2> HIDE DEF After
  <2> QED BY <1>0, <1>1, <1>2, <1>3
<1>4. plugSessions' \in Seq(PlugSession) /\ DOMAIN plugSessions' = DOMAIN plugSessions
  <2>1. DOMAIN plugSessions = 1..Len(plugSessions) /\ Len(plugSessions) \in Nat BY <1>0
  <2>2. \A i \in DOMAIN plugSessions : After(plugSessions[i]) \in PlugSession
    BY <1>0, <1>2 DEF Follows
  <2> HIDE DEF After
  <2> QED BY <1>1, <2>1, <2>2
<1>5. OneSessionPerGroup' BY <1>0, <1>3, <1>4, FollowersAreSingle
<1> QED BY <1>4, <1>5

LEMMA PlugInvStep == PlugInv /\ [PlugNext]_plugVars => PlugInv'
<1> SUFFICES ASSUME PlugInv, [PlugNext]_plugVars PROVE PlugInv'
  OBVIOUS
<1>0. /\ PlugTypeOK /\ OneSessionPerGroup /\ DoneAtRest /\ AskedSoFar
      /\ plugSessions \in Seq(PlugSession) /\ plugOnline \subseteq Plugs
      /\ \A i \in DOMAIN plugSessions : plugSessions[i] \in PlugSession
  BY DEF PlugInv, PlugTypeOK
<1>1. ASSUME NEW a \in Actors, NEW request, NEW targets \in SUBSET Plugs,
             NEW i \in DOMAIN plugSessions, ReuseSession(i, a, request, targets)
      PROVE  PlugInv'
  <2>1. Follows(Prepared(plugSessions[i]), plugSessions[i])
    BY <1>0, <1>1, PreparedFollows DEF ReuseSession, Preferred, Usable
  <2>2. /\ plugSessions' \in Seq(PlugSession) /\ OneSessionPerGroup'
        /\ DOMAIN plugSessions' = DOMAIN plugSessions
    BY <1>0, <1>1, <2>1, ChangeFollows DEF ReuseSession
  <2>3. PlugTypeOK' /\ AskedSoFar' BY <1>0, <1>1, <2>2, Begun DEF ReuseSession
  <2>4. DoneAtRest' BY <1>0, <1>1 DEF ReuseSession, relayVars, DoneAtRest
  <2> QED BY <2>2, <2>3, <2>4 DEF PlugInv
<1>2. ASSUME NEW a \in Actors, NEW request, NEW targets \in SUBSET Plugs,
             NEW i \in DOMAIN plugSessions, FailToPrepare(i, a, request, targets)
      PROVE  PlugInv'
  <2>1. PICK t \in PartlyPrepared(plugSessions[i]) :
            plugSessions' = [plugSessions EXCEPT ![i] = t]
    BY <1>2 DEF FailToPrepare
  <2>2. Follows(t, plugSessions[i])
    BY <1>0, <1>2, PartlyFollows DEF FailToPrepare, Preferred, Usable
  <2>3. /\ plugSessions' \in Seq(PlugSession) /\ OneSessionPerGroup'
        /\ DOMAIN plugSessions' = DOMAIN plugSessions
    BY <1>0, <2>1, <2>2, ChangeFollows
  <2>4. PlugTypeOK' /\ AskedSoFar' BY <1>0, <1>2, <2>3, SessionsOnly DEF FailToPrepare
  <2>5. DoneAtRest' BY <1>0, <1>2 DEF FailToPrepare, relayVars, DoneAtRest
  <2> QED BY <2>3, <2>4, <2>5 DEF PlugInv
<1>3. ASSUME NEW a \in Actors, NEW request, NEW targets \in SUBSET Plugs,
             OpenSession(a, request, targets)
      PROVE  PlugInv'
  <2> DEFINE wanted == Actionable(targets)
             made == NewSession(a, wanted, wanted)
  <2>1. wanted \in SUBSET plugOnline /\ wanted \in SUBSET Plugs /\ wanted # {}
    BY <1>3 DEF Actionable, OpenSession, MayStart
  <2>2. made \in PlugSession /\ made.phase # "ended"
    BY <2>1 DEF NewSession, PlugSession
  <2>3. Follows(Prepared(made), made) BY <2>2, PreparedFollows
  <2>4. NoneUsable(a, wanted) /\ plugSessions' = Append(plugSessions, Prepared(made))
    BY <1>3 DEF OpenSession
  <2>5. /\ plugSessions' \in Seq(PlugSession) /\ OneSessionPerGroup'
        /\ Len(plugSessions) + 1 \in DOMAIN plugSessions'
    <3> HIDE DEF wanted
    <3> QED BY <1>0, <2>1, <2>3, <2>4, AddedIsSingle
  <2>6. PlugTypeOK' /\ AskedSoFar'
    BY <1>0, <1>3, <2>5, Begun DEF OpenSession, NextSession
  <2>7. DoneAtRest' BY <1>0, <1>3 DEF OpenSession, relayVars, DoneAtRest
  <2> QED BY <2>5, <2>6, <2>7 DEF PlugInv
<1>4. ASSUME NEW a \in Actors, NEW request, NEW targets \in SUBSET Plugs,
             FailToOpenSession(a, request, targets)
      PROVE  PlugInv'
  <2> DEFINE wanted == Actionable(targets)
  <2>1. wanted \in SUBSET plugOnline /\ wanted \in SUBSET Plugs /\ NoneUsable(a, wanted)
    BY <1>4 DEF Actionable, FailToOpenSession
  <2>2. PICK bound \in SUBSET wanted :
            \E t \in PartlyPrepared(NewSession(a, bound, wanted)) :
                plugSessions' = Append(plugSessions, t)
    BY <1>4 DEF FailToOpenSession
  <2>3. PICK t \in PartlyPrepared(NewSession(a, bound, wanted)) :
            plugSessions' = Append(plugSessions, t)
    BY <2>2
  <2>4. NewSession(a, bound, wanted) \in PlugSession
        /\ NewSession(a, bound, wanted).phase # "ended"
    BY <2>1, <2>2 DEF NewSession, PlugSession
  <2>5. Follows(t, NewSession(a, bound, wanted)) BY <2>4, PartlyFollows
  <2>6. /\ plugSessions' \in Seq(PlugSession) /\ OneSessionPerGroup'
        /\ DOMAIN plugSessions \subseteq DOMAIN plugSessions'
    <3> HIDE DEF wanted
    <3> QED BY <1>0, <2>1, <2>3, <2>5, AddedIsSingle
  <2>7. PlugTypeOK' /\ AskedSoFar'
    BY <1>0, <1>4, <2>6, SessionsOnly DEF FailToOpenSession
  <2>8. DoneAtRest' BY <1>0, <1>4 DEF FailToOpenSession, relayVars, DoneAtRest
  <2> QED BY <2>6, <2>7, <2>8 DEF PlugInv
<1>5. ASSUME NEW p \in Plugs, SubmitToPlug(p) \/ HandOver(p) PROVE PlugInv'
  <2>1. /\ groupRun \in Run /\ groupRun # NoRun /\ groupRun.session \in DOMAIN plugSessions
        /\ UNCHANGED <<plugOnline, plugReported, plugLit, plugSessions, plugMishaps>>
    BY <1>0, <1>5 DEF SubmitToPlug, HandOver, relayVars, PlugTypeOK
  <2>2. PICK on \in BOOLEAN : on = groupRun.on BY <2>1 DEF Run
  <2>3. /\ groupRun' \in Run /\ groupRun'.session = groupRun.session
        /\ groupRun'.targets = groupRun.targets /\ groupRun'.on = on
        /\ groupRun'.pending \cup groupRun'.sending \cup groupRun'.failed \cup {p}
             = groupRun.pending \cup groupRun.sending \cup groupRun.failed
        /\ \/ /\ p \in groupRun'.pending \cup groupRun'.sending \cup groupRun'.failed
              /\ UNCHANGED relayVars
           \/ /\ plugOrders' = [plugOrders EXCEPT ![p] = Append(@, on)]
              /\ plugOutcome' = [plugOutcome EXCEPT ![p] = "asked"]
              /\ plugLit' = plugLit
    BY <1>5, <2>1, <2>2, RunGoesOn
  <2>4. /\ plugOrders \in [Plugs -> Seq(BOOLEAN)] /\ plugOutcome \in [Plugs -> OrderOutcomes]
        /\ plugOrders[p] \in Seq(BOOLEAN)
    BY <1>0 DEF PlugTypeOK
  <2>5. /\ Append(plugOrders[p], on) \in Seq(BOOLEAN) /\ Append(plugOrders[p], on) # <<>>
        /\ Append(plugOrders[p], on)[Len(Append(plugOrders[p], on))] = on
    BY <2>2, <2>4
  <2>6. plugOrders' \in [Plugs -> Seq(BOOLEAN)] /\ plugOutcome' \in [Plugs -> OrderOutcomes]
    BY <2>3, <2>4, <2>5 DEF relayVars, OrderOutcomes
  <2>7. PlugTypeOK' BY <1>0, <2>1, <2>3, <2>6 DEF PlugTypeOK
  <2>8. OneSessionPerGroup' BY <1>0, <2>1 DEF OneSessionPerGroup
  <2>9. DoneAtRest' BY <1>0, <2>3, <2>4 DEF DoneAtRest, relayVars
  <2>10. AskedSoFar'
    <3> SUFFICES ASSUME NEW q \in groupRun.targets,
                        q \notin groupRun'.pending \cup groupRun'.sending \cup groupRun'.failed
                 PROVE  TakesValue(q, on)'
      BY <2>3 DEF AskedSoFar, TakesValue
    <3>1. q \in Plugs BY <2>1 DEF Run
    <3>2. CASE q = p
      <4>1. /\ plugOutcome'[p] = "asked" /\ plugOrders'[p] = Append(plugOrders[p], on)
        BY <2>3, <2>4, <3>2
      <4> QED BY <2>5, <3>2, <4>1 DEF TakesValue
    <3>3. CASE q # p
      <4>1. TakesValue(q, on) BY <1>0, <2>1, <2>2, <2>3, <3>3 DEF AskedSoFar
      <4>2. /\ plugOutcome'[q] = plugOutcome[q] /\ plugOrders'[q] = plugOrders[q]
            /\ plugLit'[q] = plugLit[q]
        BY <2>3, <2>4, <3>1, <3>3 DEF relayVars
      <4> QED BY <4>1, <4>2 DEF TakesValue
    <3> QED BY <3>2, <3>3
  <2> QED BY <2>7, <2>8, <2>9, <2>10 DEF PlugInv
<1>6. CASE FinishRun
  <2>1. /\ UNCHANGED <<plugOnline, plugReported, plugLit, plugOrders, plugSessions, plugMishaps>>
        /\ groupRun' = NoRun /\ plugOutcome' = [p \in Plugs |-> "unasked"]
    BY <1>6 DEF FinishRun
  <2>2. PlugTypeOK' BY <1>0, <2>1 DEF PlugTypeOK, OrderOutcomes
  <2>3. OneSessionPerGroup' BY <1>0, <2>1 DEF OneSessionPerGroup
  <2>4. DoneAtRest' BY <2>1 DEF DoneAtRest
  <2>5. AskedSoFar' BY <2>1 DEF AskedSoFar
  <2> QED BY <2>2, <2>3, <2>4, <2>5 DEF PlugInv
<1>7. ASSUME NEW p \in Plugs, PlugReports(p) \/ PlugBack(p) PROVE PlugInv'
  <2>1. UNCHANGED <<relayVars, plugSessions, groupRun, plugMishaps>>
    BY <1>7 DEF PlugReports, PlugBack
  <2>2. plugOnline' \subseteq Plugs /\ plugReported' \in [Plugs -> Reading]
    BY <1>0, <1>7 DEF PlugReports, PlugBack, PlugTypeOK, Reading
  <2> QED BY <1>0, <2>1, <2>2
          DEF PlugInv, PlugTypeOK, OneSessionPerGroup, DoneAtRest, AskedSoFar, TakesValue, relayVars
<1>8. ASSUME NEW p \in Plugs,
             PlugObeys(p) \/ PlugRefuses(p) \/ PlugSwitchesItself(p) \/ PlugLost(p)
      PROVE  PlugInv'
  <2>1. /\ RelayOK' /\ \A q \in Plugs, on \in BOOLEAN : TakesValue(q, on) => TakesValue(q, on)'
    BY <1>0, <1>8, PlugsKeepAsked DEF RelayOK, PlugTypeOK
  <2>2. /\ plugSessions' \in Seq(PlugSession) /\ DOMAIN plugSessions' = DOMAIN plugSessions
        /\ OneSessionPerGroup'
    <3>1. CASE PlugLost(p) BY <1>0, <3>1, LosingKeepsSessions
    <3>2. CASE plugSessions' = plugSessions BY <1>0, <3>2 DEF OneSessionPerGroup
    <3> QED BY <1>8, <3>1, <3>2 DEF PlugObeys, PlugRefuses, PlugSwitchesItself
  <2>3. plugMishaps' \in 0..MaxPlugMishaps
    BY <1>0, <1>8, CountedMishap
       DEF PlugObeys, PlugRefuses, PlugSwitchesItself, PlugLost, PlugTypeOK
  <2>4. /\ plugOnline' \subseteq Plugs /\ UNCHANGED <<plugReported, groupRun>>
    BY <1>0, <1>8 DEF PlugObeys, PlugRefuses, PlugSwitchesItself, PlugLost
  <2>5. PlugTypeOK' BY <1>0, <2>1, <2>2, <2>3, <2>4 DEF PlugTypeOK, RelayOK
  <2>6. AskedSoFar'
    <3> SUFFICES ASSUME groupRun # NoRun, NEW q \in groupRun.targets,
                        q \notin groupRun.pending \cup groupRun.sending \cup groupRun.failed
                 PROVE  TakesValue(q, groupRun.on)'
      BY <2>4 DEF AskedSoFar
    <3>1. groupRun \in Run BY <1>0 DEF PlugTypeOK
    <3>2. q \in Plugs BY <3>1 DEF Run
    <3>3. PICK on \in BOOLEAN : on = groupRun.on BY <3>1 DEF Run
    <3>4. TakesValue(q, on) BY <1>0, <3>3 DEF AskedSoFar
    <3>5. TakesValue(q, on)' BY <2>1, <3>2, <3>4
    <3> QED BY <2>4, <3>3, <3>5 DEF TakesValue
  <2> QED BY <2>1, <2>2, <2>5, <2>6 DEF PlugInv, RelayOK
<1>9. ASSUME NEW i \in DOMAIN plugSessions, SessionChanges(i) PROVE PlugInv'
  <2>1. PICK t : /\ t \in {[plugSessions[i] EXCEPT !.phase = "paused", !.armed = FALSE],
                           [plugSessions[i] EXCEPT !.phase = "ended", !.armed = FALSE],
                           [plugSessions[i] EXCEPT !.armed = FALSE]}
                 /\ plugSessions' = [plugSessions EXCEPT ![i] = t]
    BY <1>9 DEF SessionChanges
  <2>2. plugSessions[i] \in PlugSession /\ plugSessions[i].phase = "active"
    BY <1>0, <1>9 DEF SessionChanges
  <2>3. Follows(t, plugSessions[i]) BY <2>1, <2>2 DEF PlugSession, Follows
  <2>4. /\ plugSessions' \in Seq(PlugSession) /\ OneSessionPerGroup'
        /\ DOMAIN plugSessions' = DOMAIN plugSessions
    BY <1>0, <2>1, <2>3, ChangeFollows
  <2>5. PlugTypeOK' /\ AskedSoFar' BY <1>0, <1>9, <2>4, SessionsOnly DEF SessionChanges
  <2>6. DoneAtRest' BY <1>0, <1>9 DEF SessionChanges, relayVars, DoneAtRest
  <2> QED BY <2>4, <2>5, <2>6 DEF PlugInv
<1>10. CASE UNCHANGED plugVars
  BY <1>0, <1>10 DEF plugVars, relayVars, PlugInv, PlugTypeOK, OneSessionPerGroup, DoneAtRest,
                     AskedSoFar, TakesValue
<1> QED
  BY <1>1, <1>2, <1>3, <1>4, <1>5, <1>6, <1>7, <1>8, <1>9, <1>10 DEF PlugNext

(* Phone events do not pile up sessions for one group of plugs, and a run   *)
(* answered as successful has asked every plug of its group for one value,  *)
(* however plugs, sessions and orders come and go while it waits.           *)
THEOREM PlugGroupIsAskedHolds == PlugSpec => PlugGroupIsAsked
<1> DEFINE ToldTrue == groupRun # NoRun /\ groupRun' = NoRun /\ Succeeded
                         => \A p \in groupRun.targets : TakesValue(p, groupRun.on)
<1>1. PlugInv => PlugTypeOK /\ OneSessionPerGroup BY DEF PlugInv
<1>2. ASSUME PlugInv, [PlugNext]_plugVars PROVE [ToldTrue]_plugVars
  <2> SUFFICES ASSUME groupRun # NoRun, groupRun' = NoRun, Succeeded,
                      NEW p \in groupRun.targets
               PROVE  TakesValue(p, groupRun.on)
    OBVIOUS
  <2>1. groupRun \in Run /\ AskedSoFar BY <1>2 DEF PlugInv, PlugTypeOK
  <2>2. ~\E q \in Plugs : SubmitToPlug(q) \/ HandOver(q)
    <3> SUFFICES ASSUME NEW q \in Plugs, SubmitToPlug(q) \/ HandOver(q) PROVE FALSE
      OBVIOUS
    <3>1. groupRun' \in Run BY <2>1, RunGoesOn
    <3> QED BY <3>1, NoRunAssumption
  <2>3. FinishRun
    <3>1. \A x, request, targets :
            /\ \A i : ~ReuseSession(i, x, request, targets) /\ ~FailToPrepare(i, x, request, targets)
            /\ ~OpenSession(x, request, targets) /\ ~FailToOpenSession(x, request, targets)
      BY <1>2 DEF MayStart, ReuseSession, FailToPrepare, OpenSession, FailToOpenSession
    <3>2. \A q : /\ ~PlugObeys(q) /\ ~PlugRefuses(q) /\ ~PlugSwitchesItself(q)
                 /\ ~PlugReports(q) /\ ~PlugLost(q) /\ ~PlugBack(q)
      BY DEF PlugObeys, PlugRefuses, PlugSwitchesItself, PlugReports, PlugLost, PlugBack
    <3>3. \A i : ~SessionChanges(i) BY DEF SessionChanges
    <3>4. ~UNCHANGED plugVars BY DEF plugVars
    <3> QED BY <1>2, <2>2, <3>1, <3>2, <3>3, <3>4 DEF PlugNext
  <2> QED BY <2>1, <2>3 DEF FinishRun, Succeeded, AskedSoFar
<1> QED BY PlugInvInit, PlugInvStep, <1>1, <1>2, PTL
        DEF PlugSpec, PlugGroupIsAsked, AnsweredGroupIsAsked
=============================================================================
