------------------------------ MODULE PlugGroup ------------------------------
(***************************************************************************)
(* The command runner behind the phone events: it switches the saved group *)
(* of smart plugs through an ordinary Fabric session of the phone, which   *)
(* it finds or creates, arms and starts.  Runs are serialised by the event *)
(* lock of UnlockAutomation; between the submission of a run's commands    *)
(* and their last answer the plugs come and go, sessions are paused,       *)
(* disarmed or stopped, and the reported power states change.              *)
(*                                                                         *)
(* A command counts as accepted once its frame is written to the           *)
(* connection of the plug's adapter.  What the adapter does with it comes  *)
(* later: it switches the relay, or refuses, fails or loses the order, and *)
(* none of that reaches the run that was answered.                         *)
(***************************************************************************)
EXTENDS Naturals, Sequences, FiniteSets

CONSTANTS
    Plugs,
    Actors,          \* the phones that own automation sessions
    NoRun,
    MaxPlugSessions, \* bound: automation sessions ever created
    MaxPlugOrders,   \* bound: orders on their way to the plugs at once
    MaxPlugMishaps   \* bound: plugs lost, orders refused, relays switched otherwise,
                     \* sessions changed or refused

ASSUME PlugAssumption ==
    MaxPlugSessions \in Nat /\ MaxPlugOrders \in Nat /\ MaxPlugMishaps \in Nat

VARIABLES
    plugOnline,      \* the plugs whose node is connected
    plugReported,    \* the power state in the node's health metrics
    plugLit,         \* the plugs' relays
    plugOrders,      \* the orders on the way to each plug's adapter, oldest first
    plugOutcome,     \* history: what came of the order of the run that is on
    plugSessions,    \* the automation sessions, in order of creation
    groupRun,        \* the run that holds the event lock
    plugMishaps

relayVars == <<plugLit, plugOrders, plugOutcome>>
plugVars == <<plugOnline, plugReported, relayVars, plugSessions, groupRun,
              plugMishaps>>

Reading == {"on", "off", "unknown"}
PlugSession == [owner : Actors, bound : SUBSET Plugs, armed : BOOLEAN, whole : BOOLEAN,
                phase : {"draft", "ready", "active", "paused", "ended"}]
Run == [session : Nat, targets : SUBSET Plugs, on : BOOLEAN,
        pending : SUBSET Plugs, sending : SUBSET Plugs, failed : SUBSET Plugs]
OrderOutcomes == {"unasked", "asked", "done", "astray"}

ASSUME NoRunAssumption == NoRun \notin Run

PlugInit ==
    /\ plugOnline = Plugs
    /\ plugReported = [p \in Plugs |-> "unknown"]
    /\ plugLit = [p \in Plugs |-> FALSE]
    /\ plugOrders = [p \in Plugs |-> <<>>]
    /\ plugOutcome = [p \in Plugs |-> "unasked"]
    /\ plugSessions = <<>>
    /\ groupRun = NoRun
    /\ plugMishaps = 0

Mishap == plugMishaps < MaxPlugMishaps /\ plugMishaps' = plugMishaps + 1

-----------------------------------------------------------------------------
(* Choosing the session. *)

\* the search as it would be if only a session that runs were reused
UsableActive(i, a, wanted) ==
    /\ plugSessions[i].owner = a /\ plugSessions[i].phase = "active"
    /\ wanted \subseteq plugSessions[i].bound

Usable(i, a, wanted) ==
    LET s == plugSessions[i] IN
    /\ s.owner = a
    /\ s.phase # "ended"
    /\ wanted \subseteq s.bound
    /\ s.bound \subseteq plugOnline

\* Armed sessions first, then by phase, then the latest (its updatedAt is later).
Rank(s) == (IF s.armed THEN 0 ELSE 4)
           + (CASE s.phase = "active" -> 0 [] s.phase = "paused" -> 1
                [] s.phase = "ready" -> 2 [] OTHER -> 3)

Preferred(i, a, wanted) ==
    /\ Usable(i, a, wanted)
    /\ \A j \in DOMAIN plugSessions :
           Usable(j, a, wanted) => Rank(plugSessions[i]) <= Rank(plugSessions[j])

NoneUsable(a, wanted) == \A i \in DOMAIN plugSessions : ~Usable(i, a, wanted)

\* A new session binds the plugs one role after the other; the first one
\* makes it ready.  It keeps the roles it got when a later one is refused.
NewSession(a, bound, wanted) ==
    [owner |-> a, bound |-> bound, armed |-> FALSE, whole |-> bound = wanted,
     phase |-> IF bound = {} THEN "draft" ELSE "ready"]

Prepared(s) == [s EXCEPT !.phase = "active", !.armed = TRUE]

\* Where a refused transition may leave a session: paused, or armed.
PartlyPrepared(s) ==
    LET paused == IF s.phase = "active" /\ ~s.armed THEN [s EXCEPT !.phase = "paused"] ELSE s
        rearmed == IF paused.phase \in {"ready", "paused"} THEN [paused EXCEPT !.armed = TRUE]
                                                         ELSE paused
    IN {s, paused, rearmed}

-----------------------------------------------------------------------------
(* A run.  request is "on", "off" or "toggle". *)

Actionable(targets) == targets \cap plugOnline

\* The value commanded: toggle switches the whole group off only when every
\* plug reports on.
Desired(request, targets) ==
    \/ request = "on"
    \/ request = "toggle" /\ \E p \in targets : plugReported[p] # "on"

\* Off goes to the plugs that are there; on and toggle are all or nothing, and
\* a toggle needs a reading of every plug.
MayStart(request, targets) ==
    /\ groupRun = NoRun
    /\ Actionable(targets) # {}
    /\ request # "off" => targets \subseteq plugOnline
    /\ request = "toggle" => \A p \in targets : plugReported[p] # "unknown"

\* the plugs that are not there, as if the answer did not list them
NoneAbsent(targets) == {}

Absent(targets) == targets \ plugOnline

Begin(i, request, targets) ==
    groupRun' = [session |-> i, targets |-> targets, on |-> Desired(request, targets),
                 pending |-> Actionable(targets), sending |-> {}, failed |-> Absent(targets)]

\* the session's place, as if it were looked up before it is added
LastSession == Len(plugSessions)

NextSession == Len(plugSessions) + 1

ReuseSession(i, a, request, targets) ==
    /\ MayStart(request, targets)
    /\ Preferred(i, a, Actionable(targets))
    /\ plugSessions[i].phase # "draft"
    /\ plugSessions' = [plugSessions EXCEPT ![i] = Prepared(@)]
    /\ Begin(i, request, targets)
    /\ UNCHANGED <<plugOnline, plugReported, relayVars, plugMishaps>>

FailToPrepare(i, a, request, targets) ==
    /\ MayStart(request, targets)
    /\ Preferred(i, a, Actionable(targets))
    /\ \E s \in PartlyPrepared(plugSessions[i]) :
           plugSessions' = [plugSessions EXCEPT ![i] = s]
    /\ Mishap
    /\ UNCHANGED <<plugOnline, plugReported, relayVars, groupRun>>

OpenSession(a, request, targets) ==
    LET wanted == Actionable(targets) IN
    /\ MayStart(request, targets)
    /\ NoneUsable(a, wanted)
    /\ Len(plugSessions) < MaxPlugSessions
    /\ plugSessions' = Append(plugSessions, Prepared(NewSession(a, wanted, wanted)))
    /\ Begin(NextSession, request, targets)
    /\ UNCHANGED <<plugOnline, plugReported, relayVars, plugMishaps>>

FailToOpenSession(a, request, targets) ==
    LET wanted == Actionable(targets) IN
    /\ MayStart(request, targets)
    /\ NoneUsable(a, wanted)
    /\ Len(plugSessions) < MaxPlugSessions
    /\ \E bound \in SUBSET wanted :
           \E s \in PartlyPrepared(NewSession(a, bound, wanted)) :
               plugSessions' = Append(plugSessions, s)
    /\ Mishap
    /\ UNCHANGED <<plugOnline, plugReported, relayVars, groupRun>>

\* submit_command of one plug, up to its await: denied unless the session is
\* still active and armed, and then up to the fabric.
SubmitToPlug(p) ==
    LET s == plugSessions[groupRun.session] IN
    /\ groupRun # NoRun
    /\ p \in groupRun.pending
    /\ \/ /\ s.phase = "active" /\ s.armed /\ p \in plugOnline
          /\ groupRun' = [groupRun EXCEPT !.pending = @ \ {p}, !.sending = @ \cup {p}]
       \/ groupRun' = [groupRun EXCEPT !.pending = @ \ {p}, !.failed = @ \cup {p}]
    /\ UNCHANGED <<plugOnline, plugReported, relayVars, plugSessions, plugMishaps>>

\* Mutant: a command whose frame could not be written counts as accepted.
Unsent(p) == {}

\* The plug whose frame could not be written.
Undelivered(p) == {p}

OnTheirWay == UNION {{p} \X DOMAIN plugOrders[p] : p \in Plugs}

\* The frame is written, or its connection fails: the last stage of the
\* command, which is all the run looks at, is DISPATCHED or FAILED.
HandOver(p) ==
    /\ groupRun # NoRun
    /\ p \in groupRun.sending
    /\ \/ /\ p \in plugOnline
          /\ Cardinality(OnTheirWay) < MaxPlugOrders
          /\ plugOrders' = [plugOrders EXCEPT ![p] = Append(@, groupRun.on)]
          /\ plugOutcome' = [plugOutcome EXCEPT ![p] = "asked"]
          /\ groupRun' = [groupRun EXCEPT !.sending = @ \ {p}]
       \/ /\ groupRun' = [groupRun EXCEPT !.sending = @ \ {p},
                                            !.failed = @ \cup Undelivered(p)]
          /\ UNCHANGED <<plugOrders, plugOutcome>>
    /\ UNCHANGED <<plugOnline, plugReported, plugLit, plugSessions, plugMishaps>>

Succeeded == groupRun.failed = {}

FinishRun ==
    /\ groupRun # NoRun
    /\ groupRun.pending = {} /\ groupRun.sending = {}
    /\ groupRun' = NoRun
    /\ plugOutcome' = [p \in Plugs |-> "unasked"]
    /\ UNCHANGED <<plugOnline, plugReported, plugLit, plugOrders, plugSessions, plugMishaps>>

-----------------------------------------------------------------------------
(* What the plugs do with their orders, and the rest of the fabric meanwhile. *)

\* What becomes of the run's order when the oldest order of p is dealt with.
Settled(p, how) ==
    plugOutcome' = [plugOutcome EXCEPT
        ![p] = IF @ = "asked" /\ Len(plugOrders[p]) = 1 THEN how ELSE @]

\* The adapter takes its frames one after the other.
PlugObeys(p) ==
    /\ plugOrders[p] # <<>>
    /\ plugLit' = [plugLit EXCEPT ![p] = Head(plugOrders[p])]
    /\ plugOrders' = [plugOrders EXCEPT ![p] = Tail(@)]
    /\ Settled(p, "done")
    /\ UNCHANGED <<plugOnline, plugReported, plugSessions, groupRun, plugMishaps>>

\* Its session is over there, the order has expired, or the switch failed.
PlugRefuses(p) ==
    /\ plugOrders[p] # <<>>
    /\ plugOrders' = [plugOrders EXCEPT ![p] = Tail(@)]
    /\ Settled(p, "astray")
    /\ Mishap
    /\ UNCHANGED <<plugOnline, plugReported, plugLit, plugSessions, groupRun>>

Undone(p) == [plugOutcome EXCEPT ![p] = IF @ = "done" THEN "astray" ELSE @]

\* Its button, a stop, or a switch that was given up and happens after all.
PlugSwitchesItself(p) ==
    /\ plugLit' = [plugLit EXCEPT ![p] = ~@]
    /\ plugOutcome' = Undone(p)
    /\ Mishap
    /\ UNCHANGED <<plugOnline, plugReported, plugOrders, plugSessions, groupRun>>

PlugReports(p) ==
    /\ p \in plugOnline
    /\ plugReported' = [plugReported EXCEPT ![p] = IF plugLit[p] THEN "on" ELSE "off"]
    /\ plugReported' # plugReported
    /\ UNCHANGED <<plugOnline, relayVars, plugSessions, groupRun, plugMishaps>>

\* Its armed sessions are disarmed, and the active ones end.
SessionsWithout(p) ==
    [i \in DOMAIN plugSessions |->
        LET s == plugSessions[i] IN
        IF s.armed /\ p \in s.bound
        THEN [s EXCEPT !.armed = FALSE, !.phase = IF @ = "active" THEN "ended" ELSE @]
        ELSE s]

\* The node is lost, and the orders on the way to it.
PlugLost(p) ==
    /\ p \in plugOnline
    /\ plugOnline' = plugOnline \ {p}
    /\ plugSessions' = SessionsWithout(p)
    /\ plugOrders' = [plugOrders EXCEPT ![p] = <<>>]
    /\ plugOutcome' = [plugOutcome EXCEPT ![p] = IF @ = "asked" THEN "astray" ELSE @]
    /\ Mishap
    /\ UNCHANGED <<plugReported, plugLit, groupRun>>

PlugBack(p) ==
    /\ p \notin plugOnline
    /\ plugOnline' = plugOnline \cup {p}
    /\ UNCHANGED <<plugReported, relayVars, plugSessions, groupRun, plugMishaps>>

\* An instructor pauses or stops the session; its arm lapses.
SessionChanges(i) ==
    /\ i \in DOMAIN plugSessions
    /\ plugSessions[i].phase = "active"
    /\ \E s \in {[plugSessions[i] EXCEPT !.phase = "paused", !.armed = FALSE],
                 [plugSessions[i] EXCEPT !.phase = "ended", !.armed = FALSE],
                 [plugSessions[i] EXCEPT !.armed = FALSE]} :
           plugSessions' = [plugSessions EXCEPT ![i] = s]
    /\ plugSessions' # plugSessions
    /\ Mishap
    /\ UNCHANGED <<plugOnline, plugReported, relayVars, groupRun>>

PlugNext ==
    \/ \E a \in Actors, request \in {"on", "off", "toggle"}, targets \in SUBSET Plugs \ {{}} :
           \/ \E i \in DOMAIN plugSessions : \/ ReuseSession(i, a, request, targets)
                                             \/ FailToPrepare(i, a, request, targets)
           \/ OpenSession(a, request, targets)
           \/ FailToOpenSession(a, request, targets)
    \/ FinishRun
    \/ \E p \in Plugs :
           \/ SubmitToPlug(p) \/ HandOver(p)
           \/ PlugObeys(p) \/ PlugRefuses(p) \/ PlugSwitchesItself(p)
           \/ PlugReports(p) \/ PlugLost(p) \/ PlugBack(p)
    \/ \E i \in DOMAIN plugSessions : SessionChanges(i)

PlugSpec == PlugInit /\ [][PlugNext]_plugVars

-----------------------------------------------------------------------------
(* A run uses a session that exists, and sessions and plugs keep their       *)
(* types.                                                                   *)
PlugTypeOK ==
    /\ plugOnline \subseteq Plugs
    /\ plugReported \in [Plugs -> Reading]
    /\ plugLit \in [Plugs -> BOOLEAN]
    /\ plugOrders \in [Plugs -> Seq(BOOLEAN)]
    /\ plugOutcome \in [Plugs -> OrderOutcomes]
    /\ plugMishaps \in 0..MaxPlugMishaps
    /\ plugSessions \in Seq(PlugSession)
    /\ groupRun # NoRun => groupRun \in Run /\ groupRun.session \in DOMAIN plugSessions

(* A phone's event creates a session only when none of the phone's covers   *)
(* the group: the live sessions of one phone that were bound completely     *)
(* have different groups, whatever comes and goes, so that events do not    *)
(* pile up sessions.                                                        *)
OneSessionPerGroup ==
    \A i, j \in DOMAIN plugSessions :
        LET s == plugSessions[i]  t == plugSessions[j] IN
        /\ i # j /\ s.owner = t.owner /\ s.whole /\ t.whole
        /\ s.phase # "ended" /\ t.phase # "ended"
        => s.bound # t.bound

(* What became of a plug that was asked to take a value: the order is the    *)
(* last one on its way, or its relay has the value, or the order went astray *)
(* after it was written.                                                    *)
TakesValue(p, on) ==
    /\ plugOutcome[p] # "unasked"
    /\ plugOutcome[p] = "asked" =>
           plugOrders[p] # <<>> /\ plugOrders[p][Len(plugOrders[p])] = on
    /\ plugOutcome[p] = "done" => plugLit[p] = on

(* A run answered as successful has asked every plug of its group for one   *)
(* value, although sessions and plugs changed while it was waiting: what is *)
(* on its way to a plug ends with this value, or the relay already has it,  *)
(* unless the plug's adapter refused or lost the order, or the relay was    *)
(* switched otherwise since.                                                *)
AnsweredGroupIsAsked ==
    [][groupRun # NoRun /\ groupRun' = NoRun /\ Succeeded
         => \A p \in groupRun.targets : TakesValue(p, groupRun.on)]_plugVars

(* Switching a group: sessions do not pile up, and an answer is true of the *)
(* orders given.                                                            *)
PlugGroupIsAsked ==
    [](PlugTypeOK /\ OneSessionPerGroup) /\ AnsweredGroupIsAsked
=============================================================================
