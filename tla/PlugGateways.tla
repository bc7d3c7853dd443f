----------------------------- MODULE PlugGateways -----------------------------
(***************************************************************************)
(* One smart-plug gateway seen from a Control Tower that is paired with it *)
(* (fabric_plug_gateways.py): the worker threads that ask it for its state *)
(* or for power, their lock, the sequence number committed before each     *)
(* request, and the snapshot that is shown for three seconds; and the      *)
(* gateway's side of these requests (fabric_unlock_automation.py), where a *)
(* power request waits for the event lock and a state request does not.    *)
(*                                                                         *)
(* A request in flight outlives the thread that gave it up.  The saved     *)
(* group is one plug here; "off" stands for the tutor's choice and for the *)
(* global stop alike.  Gateways share nothing, so one is enough.           *)
(***************************************************************************)
EXTENDS Naturals, Sequences, FiniteSets

CONSTANTS Operators,        \* threads that serve the tutors' requests
          MaxSequence,      \* bound: requests sent to the gateway
          MaxGatewayFaults  \* bound: losses, restarts, failures and other phones

ASSUME GatewayAssumption == MaxSequence \in Nat /\ MaxGatewayFaults \in Nat

VARIABLES counter,         \* gateway_sequences: the last number committed
          calls,           \* what each thread does, and for which number
          siteCache,       \* the snapshot kept: its age and what it shows
          wire,            \* requests on their way to the gateway
          gatewayLast,     \* lastSequence: the highest number it accepted
          gatewayQueue,    \* power requests waiting for its event lock
          gatewayRunning,  \* the power request it carries out
          plug,            \* the plug as the gateway reports it
          answers,         \* answers on their way back
          changed,         \* history: switched otherwise since it was looked at
          settled,         \* history: the highest number that was answered
          gatewayFaults

callVars    == <<counter, calls, siteCache>>
siteVars    == <<gatewayLast, gatewayQueue, gatewayRunning, plug>>
gatewayVars == <<callVars, wire, siteVars, answers, changed, settled, gatewayFaults>>

PlugStates == {"on", "off"}
Asks == {"state"} \cup PlugStates
Idle == [step |-> "idle", ask |-> "state", number |-> 0]
NoPower == [ask |-> "state", number |-> 0]
NoSnapshot == [age |-> "none", shows |-> "unknown"]

GatewaysInit ==
  /\ counter = 0 /\ calls = [c \in Operators |-> Idle] /\ siteCache = NoSnapshot
  /\ wire = {} /\ answers = {}
  /\ gatewayLast = 0 /\ gatewayQueue = <<>> /\ gatewayRunning = NoPower /\ plug = "off"
  /\ changed = FALSE /\ settled = 0 /\ gatewayFaults = 0

GatewayFault == gatewayFaults < MaxGatewayFaults /\ gatewayFaults' = gatewayFaults + 1

(***************************************************************************)
(* The Control Tower: _state and _power, under the lock of the site.       *)
(***************************************************************************)
Waiting == {c \in Operators : calls[c].step = "waits"}

Call(c, ask) ==
  /\ calls[c] = Idle /\ Cardinality(Waiting) + counter < MaxSequence
  /\ calls' = [calls EXCEPT ![c] = [step |-> "waits", ask |-> ask, number |-> 0]]
  /\ UNCHANGED <<counter, siteCache, wire, siteVars, answers, changed, settled, gatewayFaults>>

\* the lock as it would be if the number were drawn before it is taken
NobodyNumbers == \A c \in Operators : calls[c].step # "numbered"

SiteLockFree == \A c \in Operators : calls[c].step \notin {"numbered", "sent"}

ServeCached(c) ==
  /\ calls[c].step = "waits" /\ calls[c].ask = "state"
  /\ SiteLockFree /\ siteCache.age = "fresh"
  /\ calls' = [calls EXCEPT ![c] = Idle]
  /\ UNCHANGED <<counter, siteCache, wire, siteVars, answers, changed, settled, gatewayFaults>>

\* _sequence: the number is in the database before the request is sent
Number(c) ==
  /\ calls[c].step = "waits" /\ SiteLockFree
  /\ calls[c].ask = "state" => siteCache.age # "fresh"
  /\ counter' = counter + 1
  /\ calls' = [calls EXCEPT ![c].step = "numbered", ![c].number = counter + 1]
  /\ UNCHANGED <<siteCache, wire, siteVars, answers, changed, settled, gatewayFaults>>

Send(c) ==
  /\ calls[c].step = "numbered"
  /\ wire' = wire \cup {[ask |-> calls[c].ask, number |-> calls[c].number]}
  /\ calls' = [calls EXCEPT ![c].step = "sent"]
  /\ UNCHANGED <<counter, siteCache, siteVars, answers, changed, settled, gatewayFaults>>

\* a power call as it would end if it left the snapshot alone
Untouched == siteCache

\* whatever became of a power request, the gateway is looked at again
Outdated == IF siteCache.age = "none" THEN siteCache ELSE [siteCache EXCEPT !.age = "old"]

\* a state is kept, and without an answer to the request none is known
Observed(shows) == [age |-> "fresh", shows |-> IF shows \in PlugStates THEN shows ELSE "unknown"]

Kept(ask, shows) == siteCache' = IF ask = "state" THEN Observed(shows) ELSE Outdated

Answered(c) ==
  /\ calls[c].step = "sent"
  /\ \E a \in answers :
       /\ a.number = calls[c].number
       /\ Kept(calls[c].ask, a.shows)
       /\ settled' = IF a.shows = "refused" THEN settled ELSE a.number
       /\ answers' = answers \ {a}
  /\ calls' = [calls EXCEPT ![c] = Idle]
  /\ UNCHANGED <<counter, wire, siteVars, changed, gatewayFaults>>

\* a call as it would end if an exception left the lock locked
RaisesLocked(c) == UNCHANGED calls

Released(c) == calls' = [calls EXCEPT ![c] = Idle]

\* eight seconds without an answer, or no connection at all
GivesUp(c) ==
  /\ calls[c].step \in {"numbered", "sent"}
  /\ Kept(calls[c].ask, "unknown")
  /\ Released(c)
  /\ UNCHANGED <<counter, wire, siteVars, answers, changed, settled, gatewayFaults>>

\* three seconds
SnapshotAges ==
  /\ siteCache.age = "fresh"
  /\ siteCache' = [siteCache EXCEPT !.age = "old"]
  /\ UNCHANGED <<counter, calls, wire, siteVars, answers, changed, settled, gatewayFaults>>

\* the numbering as it would be if it were kept in memory
CountsAnew == 0

Recounted == counter

TowerRestarts ==
  /\ GatewayFault
  /\ counter' = Recounted
  /\ calls' = [c \in Operators |-> Idle] /\ siteCache' = NoSnapshot
  /\ answers' = {}
  /\ UNCHANGED <<wire, siteVars, changed, settled>>

(***************************************************************************)
(* The gateway.                                                            *)
(***************************************************************************)
Reply(request, shows) == answers' = answers \cup {[number |-> request.number, shows |-> shows]}

\* the thread that sent a request still waits for its answer
Awaited(request) == \E c \in Operators : calls[c].step = "sent" /\ calls[c].number = request.number

New(request) == request.number > gatewayLast

\* a state request is checked, counted and answered at once
ReadState(request) ==
  /\ request.ask = "state"
  /\ wire' = wire \ {request}
  /\ IF New(request)
     THEN /\ gatewayLast' = request.number
          /\ Reply(request, plug)
          /\ changed' = (changed /\ ~Awaited(request))
     ELSE Reply(request, "refused") /\ UNCHANGED <<gatewayLast, changed>>
  /\ UNCHANGED <<callVars, gatewayQueue, gatewayRunning, plug, settled, gatewayFaults>>

QueuePower(request) ==
  /\ request.ask # "state"
  /\ wire' = wire \ {request}
  /\ gatewayQueue' = Append(gatewayQueue, request)
  /\ UNCHANGED <<callVars, gatewayLast, gatewayRunning, plug, answers, changed, settled,
                 gatewayFaults>>

EventLockFree == gatewayRunning = NoPower

\* the check as it would be if it were made before the lock is awaited
EverNew(request) == TRUE

StillNew(request) == New(request)

RefusePower ==
  /\ EventLockFree /\ gatewayQueue # <<>> /\ ~StillNew(Head(gatewayQueue))
  /\ gatewayQueue' = Tail(gatewayQueue)
  /\ Reply(Head(gatewayQueue), "refused")
  /\ UNCHANGED <<callVars, wire, gatewayLast, gatewayRunning, plug, changed, settled, gatewayFaults>>

BeginPower ==
  /\ EventLockFree /\ gatewayQueue # <<>> /\ StillNew(Head(gatewayQueue))
  /\ gatewayQueue' = Tail(gatewayQueue)
  /\ gatewayRunning' = Head(gatewayQueue)
  /\ gatewayLast' = Head(gatewayQueue).number
  /\ UNCHANGED <<callVars, wire, plug, answers, changed, settled, gatewayFaults>>

\* a phone of the gateway's own, which counts by itself
PhoneBegins ==
  /\ EventLockFree /\ GatewayFault
  /\ \E ask \in PlugStates : gatewayRunning' = [ask |-> ask, number |-> 0]
  /\ UNCHANGED <<callVars, wire, gatewayLast, gatewayQueue, plug, answers, changed, settled>>

\* the plug follows, or the command fails before or after it did
EndPower ==
  /\ ~EventLockFree
  /\ gatewayRunning' = NoPower
  /\ LET request == gatewayRunning IN
     /\ plug' \in {plug, request.ask}
     /\ \/ plug' = request.ask /\ UNCHANGED gatewayFaults
        \/ plug' # request.ask /\ GatewayFault
     /\ changed' = (changed \/ (plug' # plug /\ ~Awaited(request)))
     /\ IF request.number = 0 THEN UNCHANGED answers
        ELSE Reply(request, IF plug' = request.ask THEN "done" ELSE "failed")
  /\ UNCHANGED <<callVars, wire, gatewayLast, gatewayQueue, settled>>

(***************************************************************************)
(* The network and the gateway's own failures.                             *)
(***************************************************************************)
Lose ==
  /\ GatewayFault
  /\ \/ \E request \in wire : wire' = wire \ {request} /\ UNCHANGED answers
     \/ \E a \in answers : answers' = answers \ {a} /\ UNCHANGED wire
  /\ UNCHANGED <<callVars, siteVars, changed, settled>>

\* the runtime there forgets what waited for its lock and reads its record again;
\* its adapters lose it, and switch their plugs off as they end and as they start
GatewayRestarts ==
  /\ GatewayFault
  /\ gatewayQueue' = <<>> /\ gatewayRunning' = NoPower
  /\ plug' = "off"
  /\ changed' = (changed \/ plug = "on")
  /\ UNCHANGED <<callVars, wire, gatewayLast, answers, settled>>

CallGoesOn(c) == ServeCached(c) \/ Number(c) \/ Send(c) \/ Answered(c) \/ GivesUp(c)

GatewayGoesOn ==
  \/ \E request \in wire : ReadState(request) \/ QueuePower(request)
  \/ RefusePower \/ BeginPower \/ EndPower

GatewaysNext ==
  \/ \E c \in Operators, ask \in Asks : Call(c, ask)
  \/ \E c \in Operators : CallGoesOn(c)
  \/ SnapshotAges \/ TowerRestarts
  \/ GatewayGoesOn \/ PhoneBegins \/ Lose \/ GatewayRestarts

\* Every thread runs on, and its transport has a timeout.
GatewaysSpec == GatewaysInit /\ [][GatewaysNext]_gatewayVars
                /\ \A c \in Operators : WF_gatewayVars(CallGoesOn(c))

(***************************************************************************)
(* Properties.                                                             *)
(***************************************************************************)
Requests == [ask : Asks, number : 0..MaxSequence]

\* The state holds values of its types, and no thread has a number that was
\* not committed.
GatewaysTypeOK ==
  /\ counter \in 0..MaxSequence /\ gatewayLast \in 0..MaxSequence
  /\ calls \in [Operators -> [step : {"idle", "waits", "numbered", "sent"}, ask : Asks,
                              number : 0..counter]]
  /\ siteCache \in [age : {"none", "fresh", "old"}, shows : PlugStates \cup {"unknown"}]
  /\ wire \subseteq Requests /\ gatewayRunning \in Requests
  /\ \A i \in DOMAIN gatewayQueue : gatewayQueue[i] \in Requests
  /\ plug \in PlugStates /\ changed \in BOOLEAN
  /\ gatewayFaults \in 0..MaxGatewayFaults

\* A request somebody waits for is never refused as a replay: the gateway has
\* seen no higher number, whatever was given up before, and whenever either
\* side was restarted ("a lost response must never cause replay").
AwaitedIsNew ==
  /\ \A request \in wire : Awaited(request) => New(request)
  /\ \A i \in DOMAIN gatewayQueue : Awaited(gatewayQueue[i]) => New(gatewayQueue[i])

\* A snapshot that is still shown tells the state of the plug, unless it was
\* switched meanwhile by something other than a command answered here: no
\* command of this tower, succeeded, failed or timed out, leaves an older one.
ShownIsTrue ==
  SiteLockFree /\ siteCache.age = "fresh" /\ siteCache.shows \in PlugStates /\ ~changed
    => siteCache.shows = plug

\* Once the tower has had an answer to a later request, a power request it
\* gave up is not carried out any more: "Refresh the plug status before trying
\* again" settles what an unknown result means, and commands keep their order.
RefreshSettles ==
  [][gatewayRunning' # gatewayRunning /\ gatewayRunning'.number # 0
       => gatewayRunning'.number > settled]_gatewayVars

\* Every tutor is answered, though answers are lost and other threads have the
\* lock of the site.
CallsAnswered == \A c \in Operators : []<>(calls[c].step = "idle")

\* What is shown of a gateway is true, and what was asked of it is settled.
GatewaysAreTrue ==
  [](GatewaysTypeOK /\ AwaitedIsNew /\ ShownIsTrue) /\ RefreshSettles /\ CallsAnswered
===============================================================================
