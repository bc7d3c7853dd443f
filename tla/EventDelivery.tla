----------------------------- MODULE EventDelivery -----------------------------
(***************************************************************************)
(* How an intent of the glasses becomes commands of a lesson: the durable  *)
(* outbox of the Agent Mesh bridge (bridge.ts, outbox.ts), the adapter     *)
(* connection of the runtime (fabric_adapters.py), the event store and the *)
(* flows (fabric.py, ingest_event).  The bridge reads the intents of the   *)
(* Agent Mesh in order, keeps each in its outbox until the runtime has     *)
(* acknowledged its frame, and sends again after a lost connection; the    *)
(* runtime stores an event once per message id, and submits the commands   *)
(* of its flows before it acknowledges.                                    *)
(*                                                                         *)
(* Intents are numbered in the order of the Agent Mesh feed.  A frame is   *)
(* named by the node sequence number it was given, a stored event by its   *)
(* place in the stream.                                                    *)
(***************************************************************************)
EXTENDS Naturals, Sequences, FiniteSets

CONSTANTS Intents,            \* the intents of the feed, 1..n
          Renamed,            \* intents whose frames get a new message id each
          FlowRoles,          \* target roles of the flow the events trigger
          MaxBoxFrames,       \* bound: frames the bridge makes
          MaxDeliveryFaults   \* bound: lost connections, crashes, retries

ASSUME DeliveryAssumption ==
  /\ IsFiniteSet(Intents) /\ Intents = 1..Cardinality(Intents)
  /\ Renamed \subseteq Intents
  /\ MaxBoxFrames \in Nat /\ MaxDeliveryFaults \in Nat

VARIABLES feed,        \* intents the Agent Mesh has so far
          outbox,      \* bridge_outbox: rows not yet acknowledged
          cursor,      \* agent-mesh-intent-cursor
          boxFrames,    \* node-sequence: frames made so far
          accepted,    \* bridge_event_receipts, by intent
          polled,      \* the intent enqueued whose acknowledgement is awaited
          inFlight,    \* frames sent on this connection
          socket,      \* the WebSocket: both directions, and the frames seen
          handling,    \* the frame the connection's loop works on
          orphans,     \* ingestions whose connection has gone
          eventLog,    \* fabric_events, in stream order
          requests,    \* commands the flows have submitted
          window,      \* the flow's debounce window is claimed
          lessonState, \* the interaction session
          outdated,    \* intents older than their time to live
          dropped,     \* intents acknowledged while the lesson was paused
          crashed,     \* stored events whose ingestion a crash cut short
          deliveryFaults

boxVars      == <<outbox, cursor, boxFrames, accepted, polled, inFlight>>
runtimeVars  == <<handling, orphans, eventLog, requests, window, dropped, crashed>>
worldVars    == <<feed, lessonState, outdated, deliveryFaults>>
deliveryVars == <<boxVars, socket, runtimeVars, worldVars>>

NoSocket  == [on |-> FALSE, up |-> <<>>, down |-> <<>>, seen |-> {}]
NoFrame == [frame |-> 0, event |-> 0, todo |-> {}]

DeliveryInit ==
  /\ feed = 0 /\ lessonState = "active" /\ outdated = {} /\ deliveryFaults = 0
  /\ outbox = {} /\ cursor = 0 /\ boxFrames = 0 /\ accepted = {} /\ polled = 0 /\ inFlight = {}
  /\ socket = NoSocket
  /\ handling = NoFrame /\ orphans = {}
  /\ eventLog = <<>> /\ requests = {} /\ window = FALSE /\ dropped = {} /\ crashed = {}

DeliveryFault == deliveryFaults < MaxDeliveryFaults /\ deliveryFaults' = deliveryFaults + 1

(***************************************************************************)
(* The bridge: runOnce, its poll loop and its receive loop.                *)
(***************************************************************************)
Connects ==
  /\ ~socket.on
  /\ socket' = [NoSocket EXCEPT !.on = TRUE]
  /\ inFlight' = {}
  /\ UNCHANGED <<outbox, cursor, boxFrames, accepted, polled, runtimeVars, worldVars>>

\* the message id as it would be if every frame drew its own
FreshId(i, frame) == <<i, frame>>

\* intentEventFrame names the event after the intent, the flight intents do not
MessageId(i, frame) == IF i \in Renamed THEN <<i, frame>> ELSE <<i, 0>>

NewRow == [intent |-> cursor + 1, frame |-> boxFrames + 1,
           message |-> MessageId(cursor + 1, boxFrames + 1)]

\* an INSERT without OR IGNORE's uniqueness of the source key
Piled(row) == outbox \cup {row}

Enqueued(row) == IF \E r \in outbox : r.intent = row.intent THEN outbox ELSE outbox \cup {row}

Enqueue ==
  /\ socket.on /\ polled = 0 /\ cursor < feed /\ boxFrames < MaxBoxFrames
  /\ boxFrames' = boxFrames + 1
  /\ outbox' = Enqueued(NewRow)
  /\ polled' = cursor + 1
  /\ UNCHANGED <<cursor, accepted, inFlight, socket, runtimeVars, worldVars>>

\* the Agent Mesh has taken the acknowledgement: only now the cursor moves
IntentAcknowledged ==
  /\ socket.on /\ polled # 0
  /\ cursor' = polled /\ polled' = 0
  /\ UNCHANGED <<outbox, boxFrames, accepted, inFlight, socket, runtimeVars, worldVars>>

\* the outbox as it would be if a row's expiry were not looked at
NothingTooOld == {}

Discarded == {r \in outbox : r.intent \in outdated}
Unsent    == {r \in outbox \ Discarded : r.frame \notin inFlight}
\* the rows by their node sequence numbers: there is one such order
InOrder(rows) == {s \in [1..Cardinality(rows) -> rows] :
                    \A a, b \in DOMAIN s : a < b => s[a].frame < s[b].frame}

\* flush as it would be if a frame sent were a frame delivered
ForgetsSent(rows) ==
  /\ outbox' = (outbox \ Discarded) \ rows
  /\ accepted' = accepted \cup {r.intent : r \in rows}

KeepsSent(rows) == outbox' = outbox \ Discarded /\ UNCHANGED accepted

\* flush: drop what is too old, send what is not on its way
Flush ==
  /\ socket.on /\ (Unsent # {} \/ Discarded # {})
  /\ KeepsSent(Unsent)
  /\ \E frames \in InOrder(Unsent) : socket' = [socket EXCEPT !.up = @ \o frames]
  /\ inFlight' = inFlight \cup {r.frame : r \in Unsent}
  /\ UNCHANGED <<cursor, boxFrames, polled, runtimeVars, worldVars>>

\* DELIVERY_RETRY_MS without an answer: the next flush sends it again
RetryDue ==
  \E r \in outbox :
    /\ r.frame \in inFlight
    /\ inFlight' = inFlight \ {r.frame}
    /\ DeliveryFault
    /\ UNCHANGED <<outbox, cursor, boxFrames, accepted, polled, socket, runtimeVars,
                   feed, lessonState, outdated>>

TakeAck ==
  /\ socket.on /\ socket.down # <<>>
  /\ LET f == Head(socket.down)
         mine == {r \in outbox : r.frame = f} IN
     /\ outbox' = outbox \ mine
     /\ accepted' = accepted \cup {r.intent : r \in mine}
     /\ inFlight' = inFlight \ {f}
  /\ socket' = [socket EXCEPT !.down = Tail(@)]
  /\ UNCHANGED <<cursor, boxFrames, polled, runtimeVars, worldVars>>

(***************************************************************************)
(* The connection's loop in the runtime: run and ingest_event.             *)
(***************************************************************************)
\* a broken connection as it would be if it cancelled the ingestion
Cancelled == orphans

\* the loop awaits ingest_event: that goes on when the socket is gone
Orphaned == IF handling.todo = {} THEN orphans
            ELSE orphans \cup {[event |-> handling.event, todo |-> handling.todo]}

\* a socket that closes, a poll that raises, a bridge that is restarted
SocketDown ==
  /\ socket' = NoSocket
  /\ polled' = 0
  /\ orphans' = Orphaned
  /\ handling' = NoFrame

SocketBreaks ==
  /\ socket.on /\ DeliveryFault
  /\ SocketDown
  /\ UNCHANGED <<outbox, cursor, boxFrames, accepted, inFlight, eventLog, requests, window,
                 dropped, crashed, feed, lessonState, outdated>>

Next1 == Head(socket.up)
Stored(row) == \E j \in DOMAIN eventLog : eventLog[j].message = row.message
Refused(row) == row.intent \in outdated \/ lessonState = "over"
ReadsOn == socket.on /\ handling = NoFrame /\ socket.up # <<>>

TakesFrame(row, todo, event) ==
  /\ socket' = [socket EXCEPT !.up = Tail(@), !.seen = @ \cup {row.frame}]
  /\ handling' = [frame |-> row.frame, event |-> event, todo |-> todo]

\* EVENT_EXPIRED or SESSION_NOT_ACTIVE: the error closes the whole connection
ReadRefused ==
  /\ ReadsOn /\ Next1.frame \notin socket.seen /\ Refused(Next1)
  /\ SocketDown
  /\ UNCHANGED <<outbox, cursor, boxFrames, accepted, inFlight, eventLog, requests, window,
                 dropped, crashed, worldVars>>

\* a frame seen on this connection, a paused lesson, an event already stored
ReadPassed ==
  /\ ReadsOn
  /\ \/ Next1.frame \in socket.seen /\ UNCHANGED dropped
     \/ /\ Next1.frame \notin socket.seen /\ ~Refused(Next1)
        /\ \/ lessonState = "paused" /\ dropped' = dropped \cup {Next1.intent}
           \/ lessonState = "active" /\ Stored(Next1) /\ UNCHANGED dropped
  /\ TakesFrame(Next1, {}, 0)
  /\ UNCHANGED <<boxVars, orphans, eventLog, requests, window, crashed, worldVars>>

\* append_fabric_event: the event, with the commands its flows call for
Logged(row, due) ==
  eventLog' = Append(eventLog, [intent |-> row.intent, message |-> row.message, due |-> due])

\* claim_flow_debounce: within the window the flows call for nothing
DueNow == IF window THEN {{}} ELSE SUBSET FlowRoles

\* append_fabric_event and _requests_from_flow; claiming the debounce window
\* comes before the roles are looked up, so it is claimed with none as well
ReadStored ==
  /\ ReadsOn /\ Next1.frame \notin socket.seen /\ ~Refused(Next1)
  /\ lessonState = "active" /\ ~Stored(Next1)
  /\ \E due \in DueNow :
       /\ Logged(Next1, due)
       /\ TakesFrame(Next1, due, Len(eventLog) + 1)
  /\ window' = TRUE
  /\ UNCHANGED <<boxVars, orphans, requests, dropped, crashed, worldVars>>

SubmitCommand ==
  \E role \in handling.todo :
    /\ requests' = requests \cup {<<handling.event, role>>}
    /\ handling' = [handling EXCEPT !.todo = @ \ {role}]
    /\ UNCHANGED <<boxVars, socket, orphans, eventLog, window, dropped, crashed, worldVars>>

SubmitOrphaned ==
  \E o \in orphans : \E role \in o.todo :
    /\ requests' = requests \cup {<<o.event, role>>}
    /\ orphans' = (orphans \ {o}) \cup
                  {p \in {[o EXCEPT !.todo = @ \ {role}]} : p.todo # {}}
    /\ UNCHANGED <<boxVars, socket, handling, eventLog, window, dropped, crashed, worldVars>>

AcknowledgeFrame ==
  /\ socket.on /\ handling # NoFrame /\ handling.todo = {}
  /\ socket' = [socket EXCEPT !.down = Append(@, handling.frame)]
  /\ handling' = NoFrame
  /\ UNCHANGED <<boxVars, orphans, eventLog, requests, window, dropped, crashed, worldVars>>

RuntimeCrashes ==
  /\ DeliveryFault
  /\ socket' = NoSocket /\ polled' = 0
  /\ handling' = NoFrame /\ orphans' = {}
  /\ crashed' = crashed \cup {o.event : o \in orphans}
                        \cup (IF handling.todo = {} THEN {} ELSE {handling.event})
  /\ UNCHANGED <<outbox, cursor, boxFrames, accepted, inFlight, eventLog, requests, window,
                 dropped, feed, lessonState, outdated>>

(***************************************************************************)
(* The world: new intents, the tutor, time.                                *)
(***************************************************************************)
Arrives ==
  /\ feed + 1 \in Intents /\ feed' = feed + 1
  /\ UNCHANGED <<boxVars, socket, runtimeVars, lessonState, outdated, deliveryFaults>>

LessonTurns ==
  /\ \/ lessonState = "active" /\ lessonState' \in {"paused", "over"}
     \/ lessonState = "paused" /\ lessonState' \in {"active", "over"}
  /\ UNCHANGED <<boxVars, socket, runtimeVars, feed, outdated, deliveryFaults>>

Expires ==
  \E i \in 1..feed :
    /\ i \notin outdated /\ outdated' = outdated \cup {i}
    /\ UNCHANGED <<boxVars, socket, runtimeVars, feed, lessonState, deliveryFaults>>

WindowEnds ==
  /\ window /\ window' = FALSE
  /\ UNCHANGED <<boxVars, socket, handling, orphans, eventLog, requests, dropped, crashed, worldVars>>

BridgeGoesOn  == Connects \/ Enqueue \/ IntentAcknowledged \/ Flush \/ TakeAck
RuntimeGoesOn == ReadRefused \/ ReadPassed \/ ReadStored \/ SubmitCommand \/ AcknowledgeFrame

DeliveryNext ==
  \/ BridgeGoesOn \/ RuntimeGoesOn \/ SubmitOrphaned
  \/ RetryDue \/ SocketBreaks \/ RuntimeCrashes
  \/ Arrives \/ LessonTurns \/ Expires \/ WindowEnds

\* The bridge reconnects for ever, polls and flushes on timers; the runtime's
\* loop reads on.  Nothing makes intents arrive, expire or lessons change.
DeliveryFairness ==
  /\ WF_deliveryVars(Connects) /\ WF_deliveryVars(Enqueue)
  /\ WF_deliveryVars(IntentAcknowledged) /\ WF_deliveryVars(Flush)
  /\ WF_deliveryVars(TakeAck) /\ WF_deliveryVars(RuntimeGoesOn)

DeliverySpec == DeliveryInit /\ [][DeliveryNext]_deliveryVars /\ DeliveryFairness

(***************************************************************************)
(* Properties.                                                             *)
(***************************************************************************)
Rows == [intent : Intents, frame : 1..MaxBoxFrames,
         message : Intents \X (0..MaxBoxFrames)]
Entry == [intent : Intents, message : Intents \X (0..MaxBoxFrames), due : SUBSET FlowRoles]

\* The durable and the volatile state hold values of their types, the outbox
\* has one row per source key, and the cursor never passes the feed.
DeliveryTypeOK ==
  /\ feed \in Nat /\ 1..feed \subseteq Intents
  /\ cursor \in 0..feed /\ polled \in 0..feed /\ boxFrames \in 0..MaxBoxFrames
  /\ outbox \subseteq Rows
  /\ \A r, s \in outbox : r.intent = s.intent => r = s
  /\ accepted \subseteq Intents /\ outdated \subseteq Intents /\ dropped \subseteq Intents
  /\ inFlight \subseteq 1..boxFrames
  /\ socket \in [on : BOOLEAN, up : Seq(Rows), down : Seq(1..boxFrames),
                  seen : SUBSET (1..boxFrames)]
  /\ eventLog \in Seq(Entry)
  /\ handling \in [frame : 0..boxFrames, event : {0} \cup DOMAIN eventLog,
                    todo : SUBSET FlowRoles]
  /\ orphans \subseteq [event : DOMAIN eventLog, todo : SUBSET FlowRoles]
  /\ requests \subseteq (DOMAIN eventLog) \X FlowRoles /\ crashed \subseteq DOMAIN eventLog
  /\ window \in BOOLEAN /\ lessonState \in {"active", "paused", "over"}
  /\ deliveryFaults \in 0..MaxDeliveryFaults

\* However often the bridge sends it, reads it from the feed again or puts it
\* back into its outbox, an intent is stored once: its flow runs at most once
\* (docs/architecture/current-integration-matrix.md:12, "without duplicate
\* delivery").
IntentStoredOnce ==
  \A j, k \in DOMAIN eventLog : eventLog[j].intent = eventLog[k].intent => j = k

\* What the bridge has forgotten as delivered was stored, or came while the
\* lesson was paused: no frame is lost with the connection that carried it.
AcceptedWasTaken ==
  \A i \in accepted : i \in dropped \/ \E j \in DOMAIN eventLog : eventLog[j].intent = i

Remaining(j) ==
  (IF handling.event = j THEN handling.todo ELSE {})
    \cup UNION {o.todo : o \in {p \in orphans : p.event = j}}

\* Every command a stored event was to trigger has been submitted or is about
\* to be, though its connection may have broken meanwhile; only a crash of the
\* runtime between storing and submitting loses some, because the retry of the
\* event is then a duplicate.
OnlyCrashLosesCommands ==
  \A j \in DOMAIN eventLog \ crashed :
    {role \in FlowRoles : <<j, role>> \in requests} = eventLog[j].due \ Remaining(j)

\* Every intent is delivered in the end, unless it expires or the lesson ends
\* first, whatever connections break and whatever expired frame is in its way.
IntentsAreDelivered ==
  \A i \in Intents : []<>(feed < i \/ i \in accepted \cup outdated \/ lessonState = "over"
                           \/ (boxFrames = MaxBoxFrames /\ i \notin {r.intent : r \in outbox}))

\* The safety of the delivery: nothing twice, nothing acknowledged is lost.
DeliveryIsSafe ==
  DeliveryTypeOK /\ IntentStoredOnce /\ AcceptedWasTaken /\ OnlyCrashLosesCommands
================================================================================
