----------------------------- MODULE LessonProofs -----------------------------
(***************************************************************************)
(* What a lesson leaves behind.  A student's project on disk, for any      *)
(* number of students, versions, failed writes and power cuts; the intents *)
(* of the glasses on their way to commands, for any number of intents,     *)
(* target roles, lost connections and crashes; and the recordings made of  *)
(* it, for any number of recordings, events, faults and policies.          *)
(***************************************************************************)
EXTENDS ProjectFiles, EventDelivery, LessonRecordings, FiniteSetTheorems, SequenceTheorems,
        WellFoundedInduction, TLAPS

(* No file holds a version that was not made, and the one being saved is    *)
(* the last.                                                                *)
MadeVersions ==
  /\ document <= versions
  /\ saving.step = "none" => saving = NotSaving
  /\ saving # NotSaving => saving.version = versions
  /\ saving.step = "owner" => document = saving.version

(* A deletion is asked for before anything goes, and the document goes      *)
(* first.                                                                   *)
DocumentGoesFirst ==
  /\ deleting # {} => acknowledged = 0
  /\ deleting # {} /\ "document" \notin deleting => document = 0

ProjectInv == ProjectTypeOK /\ WorkIsSafe /\ MadeVersions /\ DocumentGoesFirst

-----------------------------------------------------------------------------
(* Nothing is stored, nobody saves or deletes.                              *)
LEMMA ProjectInvInit == ProjectInit => ProjectInv
BY ProjectAssumption
   DEF ProjectInit, ProjectInv, ProjectTypeOK, WorkIsSafe, MadeVersions, DocumentGoesFirst,
       NotSaving, Half, Nobody

(* Each step of a request, each failed write and a power cut anywhere keep  *)
(* the invariant.                                                           *)
LEMMA ProjectInvStep == ProjectInv /\ [ProjectNext]_projectVars => ProjectInv'
<1> SUFFICES ASSUME ProjectInv, [ProjectNext]_projectVars PROVE ProjectInv'
  OBVIOUS
<1> USE ProjectAssumption
    DEF ProjectInv, ProjectTypeOK, WorkIsSafe, MadeVersions, DocumentGoesFirst, NotSaving, Half,
        fileVars
<1>1. ASSUME NEW s \in Students, SaveAsked(s) PROVE ProjectInv'
  BY <1>1 DEF SaveAsked, Quiet
<1>2. ASSUME NEW s \in Students, DeleteAsked(s) PROVE ProjectInv'
  BY <1>2 DEF DeleteAsked, Quiet
<1>3. CASE BackupWritten
  BY <1>3 DEF BackupWritten, Becomes
<1>4. CASE DocumentWritten
  BY <1>4 DEF DocumentWritten, Becomes
<1>5. CASE SaveAnswered
  BY <1>5 DEF SaveAnswered, Claims
<1>6. CASE FileRemoved
  BY <1>6 DEF FileRemoved, NextRemoved
<1>7. CASE WriteFails
  BY <1>7 DEF WriteFails, ProjectFault
<1>8. CASE PowerCut
  BY <1>8 DEF PowerCut, ProjectFault, LeftBehind, Replaced, Quiet
<1>9. CASE UNCHANGED projectVars
  BY <1>9 DEF projectVars
<1> QED
  BY <1>1, <1>2, <1>3, <1>4, <1>5, <1>6, <1>7, <1>8, <1>9 DEF ProjectNext

(* The invariant: a deletion has given up the acknowledged version before   *)
(* it removes a file, and a save is acknowledged when the document is in    *)
(* its place.                                                               *)
THEOREM ProjectInvariant == ProjectSpec => []ProjectInv
BY ProjectInvInit, ProjectInvStep, PTL DEF ProjectSpec

(* A document belongs to its owner until it is gone (delete_project removes *)
(* the sidecar last, save_project keeps the owner it finds).                *)
LEMMA OwnerStep ==
  ASSUME ProjectInv, [ProjectNext]_projectVars, document # 0, document' # 0, sidecar # Nobody
  PROVE  sidecar' = sidecar
<1>1. CASE FileRemoved
  <2>1. PICK file \in deleting : /\ NextRemoved(file)
                                 /\ sidecar' = IF file = "owner" THEN Nobody ELSE sidecar
    BY <1>1 DEF FileRemoved
  <2>2. "document" \in deleting
    BY <2>1 DEF ProjectInv, DocumentGoesFirst
  <2> QED BY <2>1, <2>2 DEF NextRemoved
<1>2. CASE SaveAnswered
  BY <1>2 DEF SaveAnswered, Claims
<1>3. CASE ~FileRemoved /\ ~SaveAnswered
  BY <1>3 DEF ProjectNext, SaveAsked, DeleteAsked, BackupWritten, DocumentWritten, WriteFails,
              PowerCut, LeftBehind, projectVars, fileVars
<1> QED BY <1>1, <1>2, <1>3

(* A stored project: whatever fails and whenever the power goes, the        *)
(* document is whole, is not older than the last version its student was    *)
(* told is safe, and stays its owner's (projects.py, save and delete).      *)
THEOREM ProjectsAreKeptHolds == ProjectSpec => ProjectsAreKept
<1>1. ProjectInv => ProjectTypeOK /\ WorkIsSafe
  BY DEF ProjectInv
<1>2. ProjectInv /\ [ProjectNext]_projectVars
        => [document # 0 /\ document' # 0 /\ sidecar # Nobody => sidecar' = sidecar]_projectVars
  BY OwnerStep
<1> QED BY <1>1, <1>2, ProjectInvariant, PTL DEF ProjectSpec, ProjectsAreKept, OwnerStays

-----------------------------------------------------------------------------
(***************************************************************************)
(* The delivery of intents.                                                *)
(***************************************************************************)
(* A row of the outbox, a frame on its way and a stored event carry the     *)
(* message id of their intent.                                              *)
Named(x) == /\ x.message[1] = x.intent
            /\ x.intent \notin Renamed => x.message = <<x.intent, 0>>

(* The frames that were made, and what each is about while it is in the     *)
(* outbox: a node sequence number names one intent.                         *)
Made == {r \in Rows : /\ Named(r) /\ r.frame <= boxFrames
                      /\ \A q \in outbox : q.frame = r.frame => q.intent = r.intent}

FramesAreMade == IsFiniteSet(outbox) /\ outbox \subseteq Made /\ socket.up \in Seq(Made)

(* What the runtime has read on this connection, or is about to acknowledge *)
(* or has acknowledged on it, was stored or passed over in a paused lesson. *)
Taken(i) == i \in dropped \/ \E j \in DOMAIN eventLog : eventLog[j].intent = i

SeenIsTaken ==
    /\ \A r \in outbox : r.frame \in socket.seen => Taken(r.intent)
    /\ \A i \in 1..Len(socket.down) : socket.down[i] \in socket.seen
    /\ handling # NoFrame => socket.on /\ handling.frame \in socket.seen

FrameInv == FramesAreMade /\ SeenIsTaken /\ AcceptedWasTaken

(* An intent whose message id is kept is stored once.                       *)
KeptIdStoredOnce ==
    \A j, k \in DOMAIN eventLog :
       eventLog[j].intent \notin Renamed /\ eventLog[j].intent = eventLog[k].intent => j = k

LogInv == (\A j \in DOMAIN eventLog : Named(eventLog[j])) /\ KeptIdStoredOnce

(* One ingestion has the commands of an event that are still to be          *)
(* submitted, all of them commands the event was stored with.               *)
OneIngestion ==
    /\ handling.todo # {} => /\ handling.event \in DOMAIN eventLog
                             /\ handling.todo \subseteq eventLog[handling.event].due
    /\ \A o \in orphans : /\ o.todo \subseteq eventLog[o.event].due
                          /\ handling.todo # {} => o.event # handling.event
    /\ \A o, p \in orphans : o.event = p.event => o = p

(* A command of a stored event is still to be submitted by one of them, or  *)
(* has been.                                                                *)
Pending(j, role) == \/ handling.event = j /\ role \in handling.todo
                    \/ \E o \in orphans : o.event = j /\ role \in o.todo

SubmittedOrPending ==
    \A j \in DOMAIN eventLog \ crashed : \A role \in FlowRoles :
       <<j, role>> \in requests <=> role \in eventLog[j].due /\ ~Pending(j, role)

CommandInv == OneIngestion /\ SubmittedOrPending

DeliveryInv == DeliveryTypeOK /\ FrameInv /\ LogInv /\ CommandInv

-----------------------------------------------------------------------------
(* What the runtime's steps do to the stream of events: it only grows, by   *)
(* one event with its message and commands.                                 *)
LEMMA StoreGrows ==
    ASSUME DeliveryTypeOK, NEW row \in Rows, NEW due \in SUBSET FlowRoles, Logged(row, due)
    PROVE  /\ eventLog' \in Seq(Entry) /\ Len(eventLog) \in Nat
           /\ DOMAIN eventLog = 1..Len(eventLog) /\ DOMAIN eventLog' = 1..Len(eventLog) + 1
           /\ \A j \in DOMAIN eventLog : eventLog'[j] = eventLog[j]
           /\ eventLog'[Len(eventLog) + 1] =
                [intent |-> row.intent, message |-> row.message, due |-> due]
<1> DEFINE x == [intent |-> row.intent, message |-> row.message, due |-> due]
<1>1. x \in Entry BY DEF Rows, Entry
<1>2. eventLog \in Seq(Entry) /\ eventLog' = Append(eventLog, x)
  BY DEF DeliveryTypeOK, Logged
<1> HIDE DEF x
<1>3. /\ eventLog' \in Seq(Entry) /\ Len(eventLog) \in Nat
      /\ DOMAIN eventLog = 1..Len(eventLog) /\ DOMAIN eventLog' = 1..Len(eventLog) + 1
      /\ \A j \in DOMAIN eventLog : eventLog'[j] = eventLog[j]
      /\ eventLog'[Len(eventLog) + 1] = x
  BY <1>1, <1>2
<1> QED BY <1>3 DEF x

(* The frame the loop reads next is a row that was made.                    *)
LEMMA NextIsMade ==
    ASSUME DeliveryTypeOK, FramesAreMade, ReadsOn
    PROVE  /\ Next1 \in Made /\ Next1 \in Rows /\ Next1.frame \in 1..boxFrames
           /\ Tail(socket.up) \in Seq(Made) /\ Tail(socket.up) \in Seq(Rows)
<1>1. socket.up # <<>> /\ socket.up \in Seq(Rows) /\ socket.up \in Seq(Made)
  BY DEF DeliveryTypeOK, FramesAreMade, ReadsOn
<1>2. Next1 \in Made /\ Tail(socket.up) \in Seq(Made) /\ Tail(socket.up) \in Seq(Rows)
  BY <1>1 DEF Next1
<1>3. boxFrames \in Nat BY DeliveryAssumption DEF DeliveryTypeOK
<1> QED BY <1>2, <1>3 DEF Made, Rows

LEMMA SeqOfMore ==
    ASSUME NEW S, NEW T, S \subseteq T, NEW s \in Seq(S)
    PROVE  s \in Seq(T)
<1>1. s \in [1..Len(s) -> S] /\ Len(s) \in Nat OBVIOUS
<1>2. s \in [1..Len(s) -> T] BY <1>1
<1> QED BY <1>1, <1>2

(* Sending keeps the order of the outbox and sends rows of it.              *)
LEMMA SentAreRows ==
    ASSUME NEW S, NEW rows \in SUBSET S, IsFiniteSet(rows), NEW frames \in InOrder(rows)
    PROVE  frames \in Seq(S)
<1>1. Cardinality(rows) \in Nat BY FS_CardinalityType
<1>2. frames \in [1..Cardinality(rows) -> S] BY DEF InOrder
<1> QED BY <1>1, <1>2


(* What is dropped from the outbox or not on its way is in it.              *)
LEMMA UnsentIsFinite ==
    ASSUME IsFiniteSet(outbox)
    PROVE  IsFiniteSet(Unsent) /\ Unsent \subseteq outbox /\ IsFiniteSet(outbox \ Discarded)
BY FS_Subset DEF Unsent, Discarded

(* The types.                                                               *)
LEMMA DeliveryTypeStep ==
    DeliveryInv /\ [DeliveryNext]_deliveryVars => DeliveryTypeOK'
<1> SUFFICES ASSUME DeliveryInv, [DeliveryNext]_deliveryVars
             PROVE  DeliveryTypeOK'
  OBVIOUS
<1>a. DeliveryTypeOK /\ FramesAreMade /\ OneIngestion
  BY DEF DeliveryInv, FrameInv, CommandInv
<1>b. handling # NoFrame => handling.frame \in 1..boxFrames
  BY DEF DeliveryInv, FrameInv, SeenIsTaken, DeliveryTypeOK
<1> USE <1>a, DeliveryAssumption DEF DeliveryTypeOK, boxVars, runtimeVars, worldVars
<1>0. /\ NoSocket \in [on : BOOLEAN, up : Seq(Rows), down : Seq(1..boxFrames),
                       seen : SUBSET (1..boxFrames)]
      /\ NoFrame \in [frame : 0..boxFrames, event : {0} \cup DOMAIN eventLog,
                      todo : SUBSET FlowRoles]
  BY DEF NoSocket, NoFrame
<1>1. CASE Connects
  <2>1. [NoSocket EXCEPT !.on = TRUE] \in
           [on : BOOLEAN, up : Seq(Rows), down : Seq(1..boxFrames), seen : SUBSET (1..boxFrames)]
    BY <1>0
  <2> QED BY <1>1, <2>1 DEF Connects
<1>2. CASE Enqueue
  <2>1. /\ cursor + 1 \in 1..feed /\ cursor + 1 \in Intents
        /\ boxFrames + 1 \in 1..MaxBoxFrames /\ boxFrames' = boxFrames + 1
    BY <1>2 DEF Enqueue
  <2>2. NewRow \in Rows /\ NewRow.intent = cursor + 1
    BY <2>1 DEF NewRow, Rows, MessageId
  <2>3. outbox' \subseteq Rows /\ \A r, s \in outbox' : r.intent = s.intent => r = s
    BY <1>2, <2>2 DEF Enqueue, Enqueued
  <2>4. 1..boxFrames \subseteq 1..boxFrames' /\ 0..boxFrames \subseteq 0..boxFrames'
    BY <2>1
  <2>5. socket' \in [on : BOOLEAN, up : Seq(Rows), down : Seq(1..boxFrames'),
                     seen : SUBSET (1..boxFrames')]
    <3>1. socket.down \in Seq(1..boxFrames') BY <2>4, SeqOfMore
    <3> QED BY <1>2, <2>4, <3>1 DEF Enqueue
  <2>6. handling' \in [frame : 0..boxFrames', event : {0} \cup DOMAIN eventLog',
                       todo : SUBSET FlowRoles]
    BY <1>2, <2>4 DEF Enqueue
  <2>7. inFlight' \subseteq 1..boxFrames' /\ boxFrames' \in 0..MaxBoxFrames /\ polled' \in 0..feed
    BY <1>2, <2>1, <2>4 DEF Enqueue
  <2> QED BY <1>2, <2>3, <2>5, <2>6, <2>7 DEF Enqueue
<1>3. CASE IntentAcknowledged
  BY <1>3 DEF IntentAcknowledged
<1>4. CASE Flush
  <2>1. PICK frames \in InOrder(Unsent) : socket' = [socket EXCEPT !.up = @ \o frames]
    BY <1>4 DEF Flush
  <2>2. frames \in Seq(Rows)
    <3>1. Unsent \in SUBSET Rows /\ IsFiniteSet(Unsent)
      BY UnsentIsFinite DEF FramesAreMade
    <3> QED BY <3>1, SentAreRows
  <2>3. socket.up \o frames \in Seq(Rows) BY <2>2
  <2>4. socket' \in [on : BOOLEAN, up : Seq(Rows), down : Seq(1..boxFrames),
                     seen : SUBSET (1..boxFrames)]
    BY <2>1, <2>3
  <2>5. outbox' \subseteq outbox /\ accepted' = accepted
    BY <1>4 DEF Flush, KeepsSent
  <2>6. inFlight' \subseteq 1..boxFrames
    <3>1. \A r \in Unsent : r.frame \in 1..boxFrames
      BY UnsentIsFinite DEF FramesAreMade, Made, Rows
    <3> QED BY <1>4, <3>1 DEF Flush
  <2> QED BY <1>4, <2>4, <2>5, <2>6 DEF Flush
<1>5. CASE RetryDue
  <2>1. /\ inFlight' \subseteq 1..boxFrames /\ deliveryFaults' \in 0..MaxDeliveryFaults
        /\ UNCHANGED <<outbox, cursor, boxFrames, accepted, polled, socket, runtimeVars,
                       feed, lessonState, outdated>>
    <3>1. PICK r \in outbox :
             /\ inFlight' = inFlight \ {r.frame} /\ DeliveryFault
             /\ UNCHANGED <<outbox, cursor, boxFrames, accepted, polled, socket, runtimeVars,
                            feed, lessonState, outdated>>
      BY <1>5 DEF RetryDue
    <3>2. deliveryFaults' \in 0..MaxDeliveryFaults BY <3>1 DEF DeliveryFault
    <3> QED BY <3>1, <3>2
  <2> QED BY <2>1
<1>6. CASE TakeAck
  <2>1. socket' = [socket EXCEPT !.down = Tail(@)] /\ Tail(socket.down) \in Seq(1..boxFrames)
    BY <1>6 DEF TakeAck
  <2>2. outbox' \subseteq outbox /\ accepted' \subseteq Intents /\ inFlight' \subseteq inFlight
    BY <1>6 DEF TakeAck, Rows
  <2> QED BY <1>6, <2>1, <2>2 DEF TakeAck
<1>7. CASE SocketBreaks \/ ReadRefused
  <2>1. SocketDown /\ UNCHANGED <<outbox, cursor, boxFrames, accepted, inFlight, eventLog, requests,
                                window, dropped, crashed, feed, lessonState, outdated>>
        /\ deliveryFaults' \in 0..MaxDeliveryFaults
    BY <1>7 DEF SocketBreaks, ReadRefused, DeliveryFault
  <2>2. orphans' \subseteq [event : DOMAIN eventLog, todo : SUBSET FlowRoles]
    BY <2>1 DEF SocketDown, Orphaned, OneIngestion
  <2> QED BY <1>0, <2>1, <2>2 DEF SocketDown
<1>8. CASE ReadPassed
  <2>1. /\ Next1 \in Rows /\ Next1.frame \in 1..boxFrames /\ Tail(socket.up) \in Seq(Rows)
    <3> HIDE DEF DeliveryTypeOK
    <3> QED BY <1>8, <1>a, NextIsMade DEF ReadPassed
  <2>2. TakesFrame(Next1, {}, 0) /\ dropped' \subseteq Intents
    BY <1>8, <2>1 DEF ReadPassed, Rows
  <2>3. socket' \in [on : BOOLEAN, up : Seq(Rows), down : Seq(1..boxFrames),
                     seen : SUBSET (1..boxFrames)]
    BY <2>1, <2>2 DEF TakesFrame
  <2>4. handling' \in [frame : 0..boxFrames, event : {0} \cup DOMAIN eventLog,
                       todo : SUBSET FlowRoles]
    BY <2>1, <2>2 DEF TakesFrame
  <2> QED BY <1>8, <2>2, <2>3, <2>4 DEF ReadPassed
<1>9. CASE ReadStored
  <2>1. PICK due \in DueNow : Logged(Next1, due) /\ TakesFrame(Next1, due, Len(eventLog) + 1)
    BY <1>9 DEF ReadStored
  <2>2. due \in SUBSET FlowRoles BY DEF DueNow
  <2>3. /\ Next1 \in Rows /\ Next1.frame \in 1..boxFrames /\ Tail(socket.up) \in Seq(Rows)
    <3> HIDE DEF DeliveryTypeOK
    <3> QED BY <1>9, <1>a, NextIsMade DEF ReadStored
  <2>4. /\ eventLog' \in Seq(Entry) /\ DOMAIN eventLog' = 1..Len(eventLog) + 1
        /\ DOMAIN eventLog \subseteq DOMAIN eventLog' /\ Len(eventLog) + 1 \in DOMAIN eventLog'
    <3> HIDE DEF DeliveryTypeOK
    <3>1. /\ eventLog' \in Seq(Entry) /\ DOMAIN eventLog' = 1..Len(eventLog) + 1
          /\ DOMAIN eventLog = 1..Len(eventLog) /\ Len(eventLog) \in Nat
      BY <1>a, <2>1, <2>2, <2>3, StoreGrows
    <3> QED BY <3>1
  <2>5. socket' \in [on : BOOLEAN, up : Seq(Rows), down : Seq(1..boxFrames),
                     seen : SUBSET (1..boxFrames)]
    BY <2>1, <2>3 DEF TakesFrame
  <2>6. handling' \in [frame : 0..boxFrames, event : {0} \cup DOMAIN eventLog',
                       todo : SUBSET FlowRoles]
    BY <2>1, <2>2, <2>3, <2>4 DEF TakesFrame
  <2> QED BY <1>9, <2>4, <2>5, <2>6 DEF ReadStored
<1>10. CASE SubmitCommand
  <2>1. PICK role \in handling.todo :
           /\ requests' = requests \cup {<<handling.event, role>>}
           /\ handling' = [handling EXCEPT !.todo = @ \ {role}]
    BY <1>10 DEF SubmitCommand
  <2>2. handling.event \in DOMAIN eventLog /\ role \in FlowRoles
    BY <2>1 DEF OneIngestion
  <2>3. UNCHANGED <<boxVars, socket, orphans, eventLog, window, dropped, crashed, worldVars>>
    BY <1>10 DEF SubmitCommand
  <2>4. requests' \subseteq (DOMAIN eventLog) \X FlowRoles BY <2>1, <2>2
  <2>5. handling' \in [frame : 0..boxFrames, event : {0} \cup DOMAIN eventLog,
                       todo : SUBSET FlowRoles]
    BY <2>1
  <2> QED BY <2>3, <2>4, <2>5
<1>11. CASE SubmitOrphaned
  BY <1>11 DEF SubmitOrphaned
<1>12. CASE AcknowledgeFrame
  <2>1. /\ socket' = [socket EXCEPT !.down = Append(@, handling.frame)] /\ handling' = NoFrame
        /\ handling.frame \in 1..boxFrames
    BY <1>12, <1>b DEF AcknowledgeFrame
  <2>2. Append(socket.down, handling.frame) \in Seq(1..boxFrames) BY <2>1
  <2>3. socket' \in [on : BOOLEAN, up : Seq(Rows), down : Seq(1..boxFrames),
                     seen : SUBSET (1..boxFrames)]
    BY <2>1, <2>2
  <2> QED BY <1>0, <1>12, <2>1, <2>3 DEF AcknowledgeFrame
<1>13. CASE RuntimeCrashes
  <2>1. crashed' \subseteq DOMAIN eventLog /\ deliveryFaults' \in 0..MaxDeliveryFaults
    BY <1>13 DEF RuntimeCrashes, DeliveryFault, OneIngestion
  <2> QED BY <1>0, <1>13, <2>1 DEF RuntimeCrashes
<1>14. CASE Arrives
  BY <1>14 DEF Arrives
<1>15. CASE LessonTurns
  BY <1>15 DEF LessonTurns
<1>16. CASE Expires
  BY <1>16 DEF Expires
<1>17. CASE WindowEnds
  BY <1>17 DEF WindowEnds
<1>18. CASE UNCHANGED deliveryVars
  BY <1>18 DEF deliveryVars
<1> QED
  BY <1>1, <1>2, <1>3, <1>4, <1>5, <1>6, <1>7, <1>8, <1>9, <1>10, <1>11, <1>12, <1>13, <1>14,
     <1>15, <1>16, <1>17, <1>18 DEF DeliveryNext, BridgeGoesOn, RuntimeGoesOn

-----------------------------------------------------------------------------
(* Frames: a frame that was made stays what it was, and what was stored or  *)
(* passed over stays so.                                                    *)
LEMMA MadeStays ==
    ASSUME boxFrames \in Nat, boxFrames' \in Nat, boxFrames <= boxFrames',
           \A q \in outbox' : q \in outbox \/ q.frame > boxFrames
    PROVE  Made \subseteq Made'
<1> SUFFICES ASSUME NEW r \in Made PROVE r \in Made'
  OBVIOUS
<1>1. r \in Rows /\ Named(r) /\ r.frame <= boxFrames /\ r.frame \in Int
      /\ \A q \in outbox : q.frame = r.frame => q.intent = r.intent
  BY DEF Made, Rows
<1>2. \A q \in outbox' : q.frame = r.frame => q.intent = r.intent
  BY <1>1
<1>3. r.frame <= boxFrames' BY <1>1
<1> QED BY <1>1, <1>2, <1>3 DEF Made

LEMMA TakenStays ==
    ASSUME DeliveryTypeOK, dropped \subseteq dropped',
           \/ eventLog' = eventLog
           \/ \E row \in Rows, due \in SUBSET FlowRoles : Logged(row, due),
           NEW i, Taken(i)
    PROVE  Taken(i)'
<1>1. CASE eventLog' = eventLog BY <1>1 DEF Taken
<1>2. ASSUME NEW row \in Rows, NEW due \in SUBSET FlowRoles, Logged(row, due) PROVE Taken(i)'
  <2>1. \A j \in DOMAIN eventLog : eventLog'[j] = eventLog[j] /\ j \in DOMAIN eventLog'
    <3>1. /\ Len(eventLog) \in Nat
          /\ DOMAIN eventLog = 1..Len(eventLog) /\ DOMAIN eventLog' = 1..Len(eventLog) + 1
          /\ \A j \in DOMAIN eventLog : eventLog'[j] = eventLog[j]
      BY <1>2, StoreGrows
    <3> QED BY <3>1
  <2> QED BY <2>1 DEF Taken
<1> QED BY <1>1, <1>2

LEMMA FrameStep == DeliveryInv /\ [DeliveryNext]_deliveryVars => FrameInv'
<1> SUFFICES ASSUME DeliveryInv, [DeliveryNext]_deliveryVars PROVE FrameInv'
  OBVIOUS
<1>a. DeliveryTypeOK /\ FrameInv /\ FramesAreMade /\ SeenIsTaken /\ AcceptedWasTaken
  BY DEF DeliveryInv, FrameInv
<1>b. /\ boxFrames \in Nat /\ outbox \subseteq Rows /\ IsFiniteSet(outbox)
      /\ socket \in [on : BOOLEAN, up : Seq(Rows), down : Seq(1..boxFrames),
                     seen : SUBSET (1..boxFrames)]
  BY <1>a, DeliveryAssumption DEF DeliveryTypeOK, FramesAreMade
<1> USE DEF boxVars, runtimeVars, worldVars
<1>c. ASSUME UNCHANGED <<outbox, boxFrames, accepted, socket, handling, eventLog, dropped>>
      PROVE FrameInv'
  BY <1>a, <1>c DEF FrameInv, FramesAreMade, Made, SeenIsTaken, AcceptedWasTaken, Taken
\* A connection that is new or gone has carried nothing.
<1>d. ASSUME UNCHANGED <<outbox, boxFrames, accepted, eventLog, dropped>>,
             socket'.up = <<>>, socket'.down = <<>>, socket'.seen = {}, handling' = NoFrame
      PROVE FrameInv'
  <2>1. FramesAreMade' BY <1>a, <1>d DEF FramesAreMade, Made
  <2>2. AcceptedWasTaken' BY <1>a, <1>d DEF AcceptedWasTaken
  <2>3. SeenIsTaken' BY <1>d DEF SeenIsTaken
  <2> QED BY <2>1, <2>2, <2>3 DEF FrameInv
<1>1. CASE Connects
  <2>1. handling = NoFrame BY <1>1, <1>a DEF Connects, SeenIsTaken
  <2> QED BY <1>1, <1>d, <2>1 DEF Connects, NoSocket
<1>2. CASE Enqueue
  <2>1. /\ cursor + 1 \in Intents /\ boxFrames + 1 \in 1..MaxBoxFrames
        /\ boxFrames' = boxFrames + 1
    BY <1>2, <1>a, DeliveryAssumption DEF Enqueue, DeliveryTypeOK
  <2>2. NewRow \in Rows /\ Named(NewRow) /\ NewRow.frame = boxFrames + 1
    BY <2>1, DeliveryAssumption DEF NewRow, Rows, MessageId, Named
  <2>3. \A q \in outbox' : q \in outbox \/ q = NewRow
    BY <1>2 DEF Enqueue, Enqueued
  <2>4. Made \subseteq Made' BY <1>b, <2>1, <2>2, <2>3, MadeStays
  <2>5. \A q \in outbox : q.frame <= boxFrames /\ q.frame \in Int
    BY <1>a DEF FramesAreMade, Made, Rows
  <2>6. outbox' \subseteq Made'
    <3>1. PICK r : r = NewRow OBVIOUS
    <3>2. r \in outbox' => r \in Made' BY <1>b, <2>1, <2>2, <2>3, <2>5, <3>1 DEF Made
    <3> QED BY <1>a, <2>3, <2>4, <3>1, <3>2 DEF FramesAreMade
  <2>7. IsFiniteSet(outbox')
    BY <1>2, <1>b, FS_AddElement DEF Enqueue, Enqueued
  <2>8. socket'.up \in Seq(Made')
    BY <1>2, <1>a, <2>4, SeqOfMore DEF Enqueue, FramesAreMade
  <2>9. FramesAreMade' BY <2>6, <2>7, <2>8 DEF FramesAreMade
  <2>10. SeenIsTaken'
    <3>1. UNCHANGED <<socket, handling, dropped, eventLog>> BY <1>2 DEF Enqueue
    <3>2. boxFrames + 1 \notin socket.seen BY <1>b
    <3>3. \A i : Taken(i)' <=> Taken(i) BY <3>1 DEF Taken
    <3> QED BY <1>a, <2>2, <2>3, <3>1, <3>2, <3>3 DEF SeenIsTaken
  <2>11. AcceptedWasTaken' BY <1>2, <1>a DEF Enqueue, AcceptedWasTaken
  <2> QED BY <2>9, <2>10, <2>11 DEF FrameInv
<1>3. CASE IntentAcknowledged \/ RetryDue \/ SubmitOrphaned
  BY <1>3, <1>c DEF IntentAcknowledged, RetryDue, SubmitOrphaned
<1>4. CASE Flush
  <2>1. PICK frames \in InOrder(Unsent) : socket' = [socket EXCEPT !.up = @ \o frames]
    BY <1>4 DEF Flush
  <2>2. /\ outbox' = outbox \ Discarded
        /\ UNCHANGED <<boxFrames, accepted, eventLog, dropped, handling>>
    BY <1>4 DEF Flush, KeepsSent
  <2>3. Made \subseteq Made' BY <1>b, <2>2, MadeStays
  <2>4. frames \in Seq(Made)
    <3>1. Unsent \in SUBSET Made /\ IsFiniteSet(Unsent)
      BY <1>a, <1>b, UnsentIsFinite DEF FramesAreMade
    <3> QED BY <3>1, SentAreRows
  <2>5. socket.up \o frames \in Seq(Made) BY <1>a, <2>4 DEF FramesAreMade
  <2>6. /\ socket'.up = socket.up \o frames /\ socket'.down = socket.down
        /\ socket'.seen = socket.seen /\ socket'.on = socket.on
    BY <1>b, <2>1
  <2>7. FramesAreMade'
    <3>1. socket'.up \in Seq(Made') BY <2>3, <2>5, <2>6, SeqOfMore
    <3>2. IsFiniteSet(outbox') BY <1>b, <2>2, UnsentIsFinite
    <3>3. outbox' \subseteq Made' BY <1>a, <2>2, <2>3 DEF FramesAreMade
    <3> QED BY <3>1, <3>2, <3>3 DEF FramesAreMade
  <2>8. SeenIsTaken' BY <1>a, <2>2, <2>6 DEF SeenIsTaken, Taken
  <2>9. AcceptedWasTaken' BY <1>a, <2>2 DEF AcceptedWasTaken
  <2> QED BY <2>7, <2>8, <2>9 DEF FrameInv
<1>5. CASE TakeAck
  <2> DEFINE f == Head(socket.down)
             mine == {r \in outbox : r.frame = f}
  <2>1. /\ socket.down # <<>> /\ outbox' = outbox \ mine
        /\ accepted' = accepted \cup {r.intent : r \in mine}
        /\ socket' = [socket EXCEPT !.down = Tail(@)]
        /\ UNCHANGED <<boxFrames, eventLog, dropped, handling>>
    BY <1>5 DEF TakeAck
  <2>2. /\ socket'.up = socket.up /\ socket'.down = Tail(socket.down)
        /\ socket'.seen = socket.seen /\ socket'.on = socket.on
    BY <1>b, <2>1
  <2>3. f \in socket.seen /\ \A i \in 1..Len(socket'.down) : socket'.down[i] \in socket'.seen
    <3>1. /\ f = socket.down[1] /\ 1 \in 1..Len(socket.down)
          /\ \A i \in 1..Len(Tail(socket.down)) : /\ Tail(socket.down)[i] = socket.down[i + 1]
                                                  /\ i + 1 \in 1..Len(socket.down)
      BY <1>b, <2>1
    <3> QED BY <1>a, <2>2, <3>1 DEF SeenIsTaken
  <2> HIDE DEF f
  <2>4. \A r \in mine : Taken(r.intent) BY <1>a, <2>3 DEF SeenIsTaken
  <2> HIDE DEF mine
  <2>5. AcceptedWasTaken' BY <1>a, <2>1, <2>4 DEF AcceptedWasTaken, Taken
  <2>6. Made \subseteq Made' BY <1>b, <2>1, MadeStays
  <2>7. FramesAreMade'
    <3>1. socket'.up \in Seq(Made') BY <1>a, <2>2, <2>6, SeqOfMore DEF FramesAreMade
    <3>2. IsFiniteSet(outbox') BY <1>b, <2>1, FS_Subset
    <3>3. outbox' \subseteq Made' BY <1>a, <2>1, <2>6 DEF FramesAreMade
    <3> QED BY <3>1, <3>2, <3>3 DEF FramesAreMade
  <2>8. SeenIsTaken' BY <1>a, <2>1, <2>2, <2>3 DEF SeenIsTaken, Taken
  <2> QED BY <2>5, <2>7, <2>8 DEF FrameInv
<1>6. CASE SocketBreaks \/ ReadRefused \/ RuntimeCrashes
  BY <1>6, <1>d DEF SocketBreaks, ReadRefused, RuntimeCrashes, SocketDown, NoSocket
\* A frame is read: it is taken, or it is one that was read before.
<1>e. ASSUME ReadsOn, NEW r \in Made, r = Next1,
             NEW todo, NEW event, TakesFrame(Next1, todo, event),
             UNCHANGED boxVars, Taken(r.intent)' \/ r.frame \in socket.seen,
             \A i : Taken(i) => Taken(i)'
      PROVE FrameInv'
  <2>1. Next1 \in Made /\ Tail(socket.up) \in Seq(Made)
    BY <1>a, <1>e, NextIsMade
  <2>2. /\ socket'.up = Tail(socket.up) /\ socket'.seen = socket.seen \cup {Next1.frame}
        /\ socket'.down = socket.down /\ socket'.on = socket.on /\ socket.on
        /\ handling' = [frame |-> Next1.frame, event |-> event, todo |-> todo]
    BY <1>b, <1>e DEF TakesFrame, ReadsOn
  <2>3. Made' = Made BY <1>e DEF Made
  <2>4. FramesAreMade' BY <1>a, <1>e, <2>1, <2>2, <2>3 DEF FramesAreMade
  <2>5. AcceptedWasTaken' BY <1>a, <1>e DEF AcceptedWasTaken, Taken
  <2>7. \A q \in outbox : q.frame = r.frame => q.intent = r.intent BY DEF Made
  <2>8. ASSUME NEW q \in outbox', q.frame \in socket'.seen PROVE Taken(q.intent)'
    <3>1. q \in outbox BY <1>e, <2>8
    <3>2. CASE q.frame \in socket.seen BY <1>a, <1>e, <3>1, <3>2 DEF SeenIsTaken
    <3>3. CASE q.frame \notin socket.seen
      <4>1. q.frame = r.frame /\ r.frame \notin socket.seen BY <1>e, <2>2, <2>8, <3>3
      <4>2. Taken(r.intent)' BY <1>e, <4>1
      <4> QED BY <2>7, <3>1, <4>1, <4>2
    <3> QED BY <3>2, <3>3
  <2>9. SeenIsTaken' BY <1>a, <2>2, <2>8 DEF SeenIsTaken
  <2> QED BY <2>4, <2>5, <2>9 DEF FrameInv
<1>7. CASE ReadPassed
  <2>1. ReadsOn /\ TakesFrame(Next1, {}, 0) /\ UNCHANGED boxVars /\ eventLog' = eventLog
    BY <1>7 DEF ReadPassed
  <2>2. dropped \subseteq dropped' BY <1>7 DEF ReadPassed
  <2>3. \A i : Taken(i) => Taken(i)' BY <2>1, <2>2 DEF Taken
  <2>4. PICK r \in Made : r = Next1 BY <1>a, <2>1, NextIsMade
  <2>5. CASE dropped' = dropped \cup {Next1.intent}
    <3>1. Taken(r.intent)' BY <2>4, <2>5 DEF Taken
    <3> QED BY <1>e, <2>1, <2>3, <2>4, <3>1
  <2>6. CASE Stored(Next1)
    <3>1. PICK j \in DOMAIN eventLog : eventLog[j].message = r.message
      BY <2>4, <2>6 DEF Stored
    <3>2. eventLog[j].intent = r.intent
      BY <3>1 DEF Made, DeliveryInv, LogInv, Named
    <3>3. Taken(r.intent) BY <3>1, <3>2 DEF Taken
    <3> QED BY <1>e, <2>1, <2>3, <2>4, <3>3
  <2>7. CASE Next1.frame \in socket.seen BY <1>e, <2>1, <2>3, <2>4, <2>7
  <2> QED BY <1>7, <2>5, <2>6, <2>7 DEF ReadPassed
<1>8. CASE ReadStored
  <2>1. PICK due \in SUBSET FlowRoles :
           Logged(Next1, due) /\ TakesFrame(Next1, due, Len(eventLog) + 1)
    BY <1>8 DEF ReadStored, DueNow
  <2>2. ReadsOn /\ UNCHANGED boxVars /\ dropped' = dropped
    BY <1>8 DEF ReadStored
  <2>3. PICK r \in Made : r = Next1 BY <1>a, <2>2, NextIsMade
  <2>4. Logged(r, due) /\ r \in Rows BY <2>1, <2>3 DEF Logged, Made
  <2>5. \A i : Taken(i) => Taken(i)' BY <1>a, <2>2, <2>4, TakenStays
  <2>6. Taken(r.intent)'
    <3>1. /\ Len(eventLog) + 1 \in DOMAIN eventLog'
          /\ eventLog'[Len(eventLog) + 1] =
                [intent |-> r.intent, message |-> r.message, due |-> due]
      BY <1>a, <2>4, StoreGrows
    <3> QED BY <3>1 DEF Taken
  <2>7. PICK event : event = Len(eventLog) + 1 OBVIOUS
  <2> QED BY <1>e, <2>1, <2>2, <2>3, <2>5, <2>6, <2>7
<1>9. CASE SubmitCommand
  <2>1. PICK role \in handling.todo : handling' = [handling EXCEPT !.todo = @ \ {role}]
    BY <1>9 DEF SubmitCommand
  <2>2. UNCHANGED <<boxVars, socket, eventLog, dropped>>
    BY <1>9 DEF SubmitCommand
  <2>3. handling # NoFrame /\ handling'.frame = handling.frame
    BY <1>a, <2>1 DEF DeliveryTypeOK, NoFrame
  <2>4. FramesAreMade' BY <1>a, <2>2 DEF FramesAreMade, Made
  <2>5. SeenIsTaken' BY <1>a, <2>2, <2>3 DEF SeenIsTaken, Taken
  <2>6. AcceptedWasTaken' BY <1>a, <2>2 DEF AcceptedWasTaken
  <2> QED BY <2>4, <2>5, <2>6 DEF FrameInv
<1>10. CASE AcknowledgeFrame
  <2>1. /\ handling # NoFrame /\ handling' = NoFrame
        /\ socket' = [socket EXCEPT !.down = Append(@, handling.frame)]
        /\ UNCHANGED <<boxVars, eventLog, dropped>>
    BY <1>10 DEF AcknowledgeFrame
  <2>2. /\ socket'.up = socket.up /\ socket'.seen = socket.seen
        /\ socket'.down = Append(socket.down, handling.frame)
    BY <1>b, <2>1
  <2>3. \A i \in 1..Len(socket'.down) : socket'.down[i] \in socket'.seen
    <3>1. handling.frame \in socket.seen BY <1>a, <2>1 DEF SeenIsTaken
    <3>2. /\ Len(socket.down) \in Nat /\ Len(socket'.down) = Len(socket.down) + 1
          /\ \A i \in 1..Len(socket.down) : socket'.down[i] = socket.down[i]
          /\ socket'.down[Len(socket.down) + 1] = handling.frame
      BY <1>b, <2>2
    <3>3. \A i \in 1..Len(socket'.down) : i \in 1..Len(socket.down) \/ i = Len(socket.down) + 1
      BY <3>2
    <3> QED BY <1>a, <2>2, <3>1, <3>2, <3>3 DEF SeenIsTaken
  <2>4. FramesAreMade' BY <1>a, <2>1, <2>2 DEF FramesAreMade, Made
  <2>5. SeenIsTaken' BY <1>a, <2>1, <2>2, <2>3 DEF SeenIsTaken, Taken
  <2>6. AcceptedWasTaken' BY <1>a, <2>1 DEF AcceptedWasTaken
  <2> QED BY <2>4, <2>5, <2>6 DEF FrameInv
<1>11. CASE Arrives \/ LessonTurns \/ Expires \/ WindowEnds
  BY <1>11, <1>c DEF Arrives, LessonTurns, Expires, WindowEnds
<1>12. CASE UNCHANGED deliveryVars
  BY <1>12, <1>c DEF deliveryVars
<1> QED
  BY <1>1, <1>2, <1>3, <1>4, <1>5, <1>6, <1>7, <1>8, <1>9, <1>10, <1>11, <1>12
     DEF DeliveryNext, BridgeGoesOn, RuntimeGoesOn

-----------------------------------------------------------------------------
(* The stream: an event is stored under a message id that is not there yet. *)
LEMMA LogStep == DeliveryInv /\ [DeliveryNext]_deliveryVars => LogInv'
<1> SUFFICES ASSUME DeliveryInv, [DeliveryNext]_deliveryVars PROVE LogInv'
  OBVIOUS
<1>1. CASE eventLog' = eventLog
  BY <1>1 DEF DeliveryInv, LogInv, KeptIdStoredOnce, Named
<1>2. CASE ReadStored
  <2>1. DeliveryTypeOK /\ FramesAreMade /\ LogInv BY DEF DeliveryInv, FrameInv
  <2>2. PICK due \in SUBSET FlowRoles : Logged(Next1, due)
    BY <1>2 DEF ReadStored, DueNow
  <2>3. PICK r \in Made : r = Next1 BY <1>2, <2>1, NextIsMade DEF ReadStored
  <2>4. Logged(r, due) /\ r \in Rows /\ Named(r) BY <2>2, <2>3 DEF Logged, Made
  <2>5. \A j \in DOMAIN eventLog : eventLog[j].message # r.message
    BY <1>2, <2>3 DEF ReadStored, Stored
  <2>6. /\ Len(eventLog) \in Nat
        /\ DOMAIN eventLog = 1..Len(eventLog) /\ DOMAIN eventLog' = 1..Len(eventLog) + 1
        /\ \A j \in DOMAIN eventLog : eventLog'[j] = eventLog[j]
        /\ eventLog'[Len(eventLog) + 1] =
             [intent |-> r.intent, message |-> r.message, due |-> due]
    BY <2>1, <2>4, StoreGrows
  <2>7. \A j \in DOMAIN eventLog' : j \in DOMAIN eventLog \/ j = Len(eventLog) + 1
    BY <2>6
  <2>8. \A j \in DOMAIN eventLog' : Named(eventLog'[j])
    BY <2>1, <2>4, <2>6, <2>7 DEF LogInv, Named
  <2>9. \A j \in DOMAIN eventLog : ~(r.intent \notin Renamed /\ eventLog[j].intent = r.intent)
    BY <2>1, <2>4, <2>5 DEF LogInv, Named
  <2>10. KeptIdStoredOnce'
    BY <2>1, <2>6, <2>7, <2>9 DEF LogInv, KeptIdStoredOnce
  <2> QED BY <2>8, <2>10 DEF LogInv, Named
<1> QED
  BY <1>1, <1>2
     DEF DeliveryNext, BridgeGoesOn, RuntimeGoesOn, deliveryVars, boxVars, runtimeVars, Connects,
         Enqueue, IntentAcknowledged, Flush, TakeAck, ReadRefused, ReadPassed, SubmitCommand,
         AcknowledgeFrame, SubmitOrphaned, RetryDue, SocketBreaks, RuntimeCrashes, Arrives,
         LessonTurns, Expires, WindowEnds

(* Commands: an ingestion goes on where it was when its connection breaks,  *)
(* and no two have commands of one event.                                   *)
LEMMA CommandStep == DeliveryInv /\ [DeliveryNext]_deliveryVars => CommandInv'
<1> SUFFICES ASSUME DeliveryInv, [DeliveryNext]_deliveryVars PROVE CommandInv'
  OBVIOUS
<1>a. /\ DeliveryTypeOK /\ FramesAreMade /\ OneIngestion /\ SubmittedOrPending
      /\ eventLog \in Seq(Entry) /\ DOMAIN eventLog = 1..Len(eventLog) /\ Len(eventLog) \in Nat
      /\ handling.event \in {0} \cup DOMAIN eventLog
      /\ orphans \subseteq [event : DOMAIN eventLog, todo : SUBSET FlowRoles]
      /\ requests \subseteq (DOMAIN eventLog) \X FlowRoles
  BY DEF DeliveryInv, FrameInv, CommandInv, DeliveryTypeOK
<1> USE DEF boxVars, runtimeVars, worldVars
<1>b. ASSUME UNCHANGED <<handling, orphans, eventLog, requests, crashed>> PROVE CommandInv'
  BY <1>a, <1>b DEF CommandInv, OneIngestion, SubmittedOrPending, Pending
\* The loop turns to a frame without commands, or from one.
<1>c. ASSUME UNCHANGED <<orphans, eventLog, requests, crashed>>,
             handling.todo = {}, handling'.todo = {}
      PROVE CommandInv'
  BY <1>a, <1>c DEF CommandInv, OneIngestion, SubmittedOrPending, Pending
<1>1. CASE \/ Connects \/ Enqueue \/ IntentAcknowledged \/ Flush \/ TakeAck \/ RetryDue
           \/ Arrives \/ LessonTurns \/ Expires \/ WindowEnds \/ UNCHANGED deliveryVars
  BY <1>1, <1>b DEF Connects, Enqueue, IntentAcknowledged, Flush, TakeAck, RetryDue, Arrives,
     LessonTurns, Expires, WindowEnds, deliveryVars
<1>2. CASE SocketBreaks \/ ReadRefused
  <2>1. /\ orphans' = Orphaned /\ handling' = NoFrame
        /\ UNCHANGED <<eventLog, requests, crashed>>
    BY <1>2 DEF SocketBreaks, ReadRefused, SocketDown
  <2>2. CASE handling.todo = {}
    BY <1>c, <2>1, <2>2 DEF Orphaned, NoFrame
  <2>3. CASE handling.todo # {}
    <3> DEFINE n == [event |-> handling.event, todo |-> handling.todo]
    <3>1. /\ orphans' = orphans \cup {n} /\ n.event = handling.event /\ n.todo = handling.todo
          /\ handling'.todo = {}
      BY <2>1, <2>3 DEF Orphaned, NoFrame
    <3> HIDE DEF n
    <3>2. OneIngestion' BY <1>a, <2>1, <2>3, <3>1 DEF OneIngestion
    <3>3. ASSUME NEW j \in DOMAIN eventLog, NEW role \in FlowRoles
          PROVE  Pending(j, role)' <=> Pending(j, role)
      BY <2>1, <3>1 DEF Pending
    <3>4. SubmittedOrPending' BY <1>a, <2>1, <3>3 DEF SubmittedOrPending
    <3> QED BY <3>2, <3>4 DEF CommandInv
  <2> QED BY <2>2, <2>3
<1>3. CASE ReadPassed
  BY <1>3, <1>c DEF ReadPassed, ReadsOn, TakesFrame, NoFrame
<1>4. CASE ReadStored
  <2>1. PICK due \in SUBSET FlowRoles :
           Logged(Next1, due) /\ TakesFrame(Next1, due, Len(eventLog) + 1)
    BY <1>4 DEF ReadStored, DueNow
  <2>2. /\ ReadsOn /\ UNCHANGED <<orphans, requests, crashed>> /\ handling = NoFrame
    BY <1>4 DEF ReadStored, ReadsOn
  <2>3. PICK r \in Rows : r = Next1 BY <1>a, <2>2, NextIsMade
  <2>4. /\ DOMAIN eventLog' = 1..Len(eventLog) + 1
        /\ \A j \in DOMAIN eventLog : eventLog'[j] = eventLog[j]
        /\ eventLog'[Len(eventLog) + 1].due = due
    <3>1. Logged(r, due) BY <2>1, <2>3 DEF Logged
    <3>2. DeliveryTypeOK BY <1>a
    <3>3. eventLog'[Len(eventLog) + 1] =
            [intent |-> r.intent, message |-> r.message, due |-> due]
      BY <2>1, <2>3, <3>1, <3>2, StoreGrows
    <3> QED BY <1>a, <2>1, <2>3, <3>1, <3>2, <3>3, StoreGrows
  <2>5. handling'.event = Len(eventLog) + 1 /\ handling'.todo = due
    BY <2>1 DEF TakesFrame
  <2>6. handling.todo = {} /\ handling.event = 0 BY <2>2 DEF NoFrame
  <2>7. /\ \A j \in DOMAIN eventLog' : j \in DOMAIN eventLog \/ j = Len(eventLog) + 1
        /\ Len(eventLog) + 1 \notin DOMAIN eventLog
    BY <1>a, <2>4
  <2>8. OneIngestion'
    <3>1. \A o \in orphans : o.event \in DOMAIN eventLog BY <1>a
    <3> QED BY <1>a, <2>2, <2>4, <2>5, <2>7, <3>1 DEF OneIngestion
  <2>9. ASSUME NEW j \in DOMAIN eventLog' \ crashed', NEW role \in FlowRoles
        PROVE  <<j, role>> \in requests' <=> role \in eventLog'[j].due /\ ~Pending(j, role)'
    <3>1. CASE j \in DOMAIN eventLog
      <4>1. Pending(j, role)' <=> Pending(j, role)
        BY <2>2, <2>5, <2>6, <2>7, <3>1 DEF Pending
      <4> QED BY <1>a, <2>2, <2>4, <2>9, <3>1, <4>1 DEF SubmittedOrPending
    <3>2. CASE j = Len(eventLog) + 1
      <4>1. <<j, role>> \notin requests BY <1>a, <2>7, <3>2
      <4>2. role \in due => Pending(j, role)' BY <2>5, <3>2 DEF Pending
      <4> QED BY <2>2, <2>4, <3>2, <4>1, <4>2
    <3> QED BY <2>7, <3>1, <3>2
  <2>10. SubmittedOrPending' BY <2>9 DEF SubmittedOrPending
  <2> QED BY <2>8, <2>10 DEF CommandInv
<1>5. CASE SubmitCommand
  <2>1. PICK role \in handling.todo :
           /\ requests' = requests \cup {<<handling.event, role>>}
           /\ handling' = [handling EXCEPT !.todo = @ \ {role}]
    BY <1>5 DEF SubmitCommand
  <2>2. UNCHANGED <<orphans, eventLog, crashed>> BY <1>5 DEF SubmitCommand
  <2>3. /\ handling'.event = handling.event /\ handling'.todo = handling.todo \ {role}
        /\ role \in eventLog[handling.event].due
        /\ \A o \in orphans : o.event # handling.event
    BY <1>a, <2>1 DEF OneIngestion, DeliveryTypeOK
  <2>4. OneIngestion' BY <1>a, <2>2, <2>3 DEF OneIngestion
  <2>5. ASSUME NEW j \in DOMAIN eventLog \ crashed, NEW other \in FlowRoles
        PROVE  <<j, other>> \in requests' <=> other \in eventLog[j].due /\ ~Pending(j, other)'
    <3>1. CASE j = handling.event /\ other = role
      <4>1. ~Pending(j, other)' BY <2>2, <2>3, <3>1 DEF Pending
      <4> QED BY <2>1, <2>3, <3>1, <4>1
    <3>2. CASE ~(j = handling.event /\ other = role)
      <4>1. Pending(j, other)' <=> Pending(j, other) BY <2>2, <2>3, <3>2 DEF Pending
      <4>2. <<j, other>> \in requests' <=> <<j, other>> \in requests BY <2>1, <3>2
      <4> QED BY <1>a, <4>1, <4>2 DEF SubmittedOrPending
    <3> QED BY <3>1, <3>2
  <2>6. SubmittedOrPending' BY <2>2, <2>5 DEF SubmittedOrPending
  <2> QED BY <2>4, <2>6 DEF CommandInv
<1>6. CASE SubmitOrphaned
  <2>0. PICK o \in orphans : \E role \in o.todo :
           /\ requests' = requests \cup {<<o.event, role>>}
           /\ orphans' = (orphans \ {o}) \cup
                         {p \in {[o EXCEPT !.todo = @ \ {role}]} : p.todo # {}}
           /\ UNCHANGED <<handling, eventLog, crashed>>
    BY <1>6 DEF SubmitOrphaned
  <2>1. PICK role \in o.todo :
           /\ requests' = requests \cup {<<o.event, role>>}
           /\ orphans' = (orphans \ {o}) \cup
                         {p \in {[o EXCEPT !.todo = @ \ {role}]} : p.todo # {}}
           /\ UNCHANGED <<handling, eventLog, crashed>>
    BY <2>0
  <2> DEFINE n == [o EXCEPT !.todo = @ \ {role}]
  <2>2. /\ n.event = o.event /\ n.todo = o.todo \ {role} /\ role \in eventLog[o.event].due
        /\ \A p \in orphans \ {o} : p.event # o.event
        /\ handling.todo # {} => handling.event # o.event
    BY <1>a, <2>1 DEF OneIngestion
  <2>3. orphans' = (orphans \ {o}) \cup (IF n.todo = {} THEN {} ELSE {n})
    BY <2>1
  <2> HIDE DEF n
  <2>4. OneIngestion' BY <1>a, <2>1, <2>2, <2>3 DEF OneIngestion
  <2>5. ASSUME NEW j \in DOMAIN eventLog \ crashed, NEW other \in FlowRoles
        PROVE  <<j, other>> \in requests' <=> other \in eventLog[j].due /\ ~Pending(j, other)'
    <3>1. CASE j = o.event /\ other = role
      <4>1. ~Pending(j, other)' BY <2>1, <2>2, <2>3, <3>1 DEF Pending
      <4> QED BY <2>1, <2>2, <3>1, <4>1
    <3>2. CASE ~(j = o.event /\ other = role)
      <4>1. Pending(j, other)' <=> Pending(j, other) BY <2>1, <2>2, <2>3, <3>2 DEF Pending
      <4>2. <<j, other>> \in requests' <=> <<j, other>> \in requests BY <2>1, <3>2
      <4> QED BY <1>a, <4>1, <4>2 DEF SubmittedOrPending
    <3> QED BY <3>1, <3>2
  <2>6. SubmittedOrPending' BY <2>1, <2>5 DEF SubmittedOrPending
  <2> QED BY <2>4, <2>6 DEF CommandInv
<1>7. CASE AcknowledgeFrame
  BY <1>7, <1>c DEF AcknowledgeFrame, NoFrame
<1>8. CASE RuntimeCrashes
  <2>1. /\ handling' = NoFrame /\ orphans' = {} /\ UNCHANGED <<eventLog, requests>>
        /\ crashed' = crashed \cup {o.event : o \in orphans}
                              \cup (IF handling.todo = {} THEN {} ELSE {handling.event})
    BY <1>8 DEF RuntimeCrashes
  <2>2. OneIngestion' BY <2>1 DEF OneIngestion, NoFrame
  <2>3. ASSUME NEW j \in DOMAIN eventLog \ crashed', NEW role \in FlowRoles
        PROVE  j \notin crashed /\ ~Pending(j, role) /\ ~Pending(j, role)'
    BY <2>1, <2>3 DEF Pending, NoFrame
  <2>4. SubmittedOrPending' BY <1>a, <2>1, <2>3 DEF SubmittedOrPending
  <2> QED BY <2>2, <2>4 DEF CommandInv
<1> QED
  BY <1>1, <1>2, <1>3, <1>4, <1>5, <1>6, <1>7, <1>8
     DEF DeliveryNext, BridgeGoesOn, RuntimeGoesOn

-----------------------------------------------------------------------------
LEMMA DeliveryInvInit == DeliveryInit => DeliveryInv
<1> SUFFICES ASSUME DeliveryInit PROVE DeliveryInv
  OBVIOUS
<1> USE DeliveryAssumption DEF DeliveryInit
<1>1. DeliveryTypeOK
  <2>1. /\ NoSocket \in [on : BOOLEAN, up : Seq(Rows), down : Seq(1..boxFrames),
                         seen : SUBSET (1..boxFrames)]
        /\ NoFrame \in [frame : 0..boxFrames, event : {0} \cup DOMAIN eventLog,
                        todo : SUBSET FlowRoles]
    BY DEF NoSocket, NoFrame
  <2>2. eventLog \in Seq(Entry) OBVIOUS
  <2>3. feed \in Nat /\ 1..feed \subseteq Intents /\ cursor \in 0..feed /\ polled \in 0..feed
    BY SMTT(20)
  <2>4. /\ boxFrames \in 0..MaxBoxFrames /\ deliveryFaults \in 0..MaxDeliveryFaults
        /\ inFlight \subseteq 1..boxFrames
    OBVIOUS
  <2>5. /\ requests \subseteq (DOMAIN eventLog) \X FlowRoles /\ crashed \subseteq DOMAIN eventLog
        /\ orphans \subseteq [event : DOMAIN eventLog, todo : SUBSET FlowRoles]
    OBVIOUS
  <2>6. /\ outbox \subseteq Rows /\ \A r, s \in outbox : r.intent = s.intent => r = s
        /\ accepted \subseteq Intents /\ outdated \subseteq Intents /\ dropped \subseteq Intents
        /\ window \in BOOLEAN /\ lessonState \in {"active", "paused", "over"}
    OBVIOUS
  <2>7. /\ socket \in [on : BOOLEAN, up : Seq(Rows), down : Seq(1..boxFrames),
                        seen : SUBSET (1..boxFrames)]
        /\ handling \in [frame : 0..boxFrames, event : {0} \cup DOMAIN eventLog,
                         todo : SUBSET FlowRoles]
    BY <2>1
  <2> HIDE DEF DeliveryInit
  <2> QED BY <2>2, <2>3, <2>4, <2>5, <2>6, <2>7 DEF DeliveryTypeOK
<1>2. FrameInv
  <2>1. FramesAreMade BY FS_EmptySet DEF FramesAreMade, NoSocket
  <2>2. SeenIsTaken /\ AcceptedWasTaken
    BY DEF SeenIsTaken, AcceptedWasTaken, NoSocket
  <2> QED BY <2>1, <2>2 DEF FrameInv
<1>3. LogInv BY DEF LogInv, KeptIdStoredOnce
<1>4. CommandInv BY DEF CommandInv, OneIngestion, SubmittedOrPending, NoFrame
<1> QED BY <1>1, <1>2, <1>3, <1>4 DEF DeliveryInv

(* What is still to be submitted, as a set of roles.                        *)
LEMMA PendingIsRemaining ==
    ASSUME DeliveryTypeOK, SubmittedOrPending PROVE OnlyCrashLosesCommands
<1> SUFFICES ASSUME NEW j \in DOMAIN eventLog \ crashed
             PROVE  {role \in FlowRoles : <<j, role>> \in requests}
                      = eventLog[j].due \ Remaining(j)
  BY DEF OnlyCrashLosesCommands
<1>1. \A role : role \in Remaining(j) <=> Pending(j, role)
  BY DEF Remaining, Pending
<1>2. eventLog[j].due \subseteq FlowRoles
  <2>1. eventLog \in Seq(Entry) BY DEF DeliveryTypeOK
  <2>2. eventLog[j] \in Entry BY <2>1
  <2> QED BY <2>2 DEF Entry
<1> QED BY <1>1, <1>2 DEF SubmittedOrPending

(* Whatever connections break, frames are sent again, expire or are read in *)
(* a paused lesson: an intent whose message id is kept is stored once, what *)
(* the bridge has forgotten was taken, and only a crash between storing and *)
(* submitting loses commands.                                               *)
THEOREM DeliveryInvariant == DeliverySpec => []DeliveryInv
<1>1. DeliveryInv /\ [DeliveryNext]_deliveryVars => DeliveryInv'
  BY DeliveryTypeStep, FrameStep, LogStep, CommandStep DEF DeliveryInv
<1> QED BY DeliveryInvInit, <1>1, PTL DEF DeliverySpec

(* Without intents whose frames get a new message id each, nothing is       *)
(* stored twice.                                                            *)
THEOREM DeliveryIsSafeHolds ==
    ASSUME Renamed = {} PROVE DeliverySpec => []DeliveryIsSafe
<1>1. DeliveryInv => DeliveryIsSafe
  BY PendingIsRemaining
     DEF DeliveryInv, DeliveryIsSafe, FrameInv, LogInv, CommandInv, KeptIdStoredOnce,
         IntentStoredOnce
<1> QED BY DeliveryInvariant, <1>1, PTL

-----------------------------------------------------------------------------
(* The recordings of a lesson.  The order in which they were started is total, *)
(* and of any of them one is the oldest.                                    *)
Started == ToSet(begun)
Begun == begun \in Seq(LessonRecs) /\ IsInjective(begun)

LEMMA StartedAt ==
  ASSUME Begun
  PROVE  /\ DOMAIN begun = 1..Len(begun) /\ Len(begun) \in Nat
         /\ \A r : r \in Started <=> \E i \in 1..Len(begun) : begun[i] = r
         /\ \A i, j \in 1..Len(begun) : begun[i] = begun[j] => i = j
         /\ \A r, s : Newer(r, s) <=> \E i, j \in 1..Len(begun) :
                                        i > j /\ begun[i] = r /\ begun[j] = s
         /\ Started \subseteq LessonRecs
<1>1. DOMAIN begun = 1..Len(begun) /\ Len(begun) \in Nat BY DEF Begun
<1>2. \A r : r \in Started <=> \E i \in 1..Len(begun) : begun[i] = r
  BY <1>1 DEF Started, ToSet
<1>3. \A i, j \in 1..Len(begun) : begun[i] = begun[j] => i = j
  BY <1>1 DEF Begun, IsInjective
<1>4. \A r, s : Newer(r, s) <=> \E i, j \in 1..Len(begun) :
                                  i > j /\ begun[i] = r /\ begun[j] = s
  BY <1>1 DEF Newer
<1>5. Started \subseteq LessonRecs BY <1>2 DEF Begun
<1> QED BY <1>1, <1>2, <1>3, <1>4, <1>5

LEMMA StartedInOrder ==
  ASSUME Begun
  PROVE  /\ \A r, s, t : Newer(r, s) /\ Newer(s, t) => Newer(r, t)
         /\ \A r, s : Newer(r, s) => ~Newer(s, r) /\ r # s
         /\ \A r, s \in Started : r = s \/ Newer(r, s) \/ Newer(s, r)
<1>1. ASSUME NEW r, NEW s, NEW t, Newer(r, s), Newer(s, t) PROVE Newer(r, t)
  <2>1. PICK i, j \in 1..Len(begun) : i > j /\ begun[i] = r /\ begun[j] = s
    BY <1>1, StartedAt
  <2>2. PICK k, l \in 1..Len(begun) : k > l /\ begun[k] = s /\ begun[l] = t
    BY <1>1, StartedAt
  <2>3. j = k BY <2>1, <2>2, StartedAt
  <2>4. i > l BY <2>1, <2>2, <2>3, StartedAt
  <2> QED BY <2>1, <2>2, <2>4, StartedAt
<1>2. ASSUME NEW r, NEW s, Newer(r, s) PROVE ~Newer(s, r) /\ r # s
  <2>1. PICK i, j \in 1..Len(begun) : i > j /\ begun[i] = r /\ begun[j] = s
    BY <1>2, StartedAt
  <2>2. r # s BY <2>1, StartedAt
  <2>3. ASSUME NEW k \in 1..Len(begun), NEW l \in 1..Len(begun),
               k > l, begun[k] = s, begun[l] = r
        PROVE  FALSE
    <3>1. k = j /\ l = i BY <2>1, <2>3, StartedAt
    <3> QED BY <2>1, <2>3, <3>1, StartedAt
  <2> QED BY <2>2, <2>3, StartedAt
<1>3. ASSUME NEW r \in Started, NEW s \in Started PROVE r = s \/ Newer(r, s) \/ Newer(s, r)
  <2>1. PICK i \in 1..Len(begun) : begun[i] = r BY StartedAt
  <2>2. PICK j \in 1..Len(begun) : begun[j] = s BY StartedAt
  <2>3. i = j \/ i > j \/ j > i BY <2>1, <2>2, StartedAt
  <2> QED BY <2>1, <2>2, <2>3, StartedAt
<1> QED BY <1>1, <1>2, <1>3

LEMMA StartedFinite ==
  ASSUME Begun, NEW R \in SUBSET Started
  PROVE  IsFiniteSet(R) /\ Cardinality(R) \in Nat
<1>1. begun \in Surjection(1..Len(begun), Started)
  <2>1. begun \in [1..Len(begun) -> Started]
    BY StartedAt DEF Begun
  <2> QED BY <2>1, StartedAt DEF Surjection
<1>2. IsFiniteSet(1..Len(begun)) BY StartedAt, FS_Interval
<1>3. IsFiniteSet(Started) BY <1>1, <1>2, FS_Surjection
<1> QED BY <1>3, FS_Subset, FS_CardinalityType

LEMMA OldestOf ==
  ASSUME Begun, NEW R \in SUBSET Started, R # {}
  PROVE  \E r \in R : \A q \in R : q # r => Newer(q, r)
<1> DEFINE Older(r) == {t \in R : Newer(r, t)}
           Olders == {Older(r) : r \in R}
           Below == StrictSubsetOrdering(R)
<1>1. Olders \subseteq FiniteSubsetsOf(R)
  <2>1. \A r \in R : Older(r) \in SUBSET R /\ IsFiniteSet(Older(r)) BY StartedFinite
  <2> QED BY <2>1 DEF FiniteSubsetsOf
<1>2. Olders # {} OBVIOUS
<1>3. IsWellFoundedOn(Below, FiniteSubsetsOf(R)) BY FS_StrictSubsetOrderingWellFounded
<1>4. PICK X \in Olders : \A Y \in Olders : <<Y, X>> \notin Below
  <2> HIDE DEF Olders, Below
  <2> QED BY <1>1, <1>2, <1>3, WFMin
<1>5. PICK r \in R : X = Older(r) BY <1>4
<1>6. ASSUME NEW q \in R, q # r, ~Newer(q, r) PROVE FALSE
  <2>1. Newer(r, q) BY <1>6, StartedInOrder
  <2>2. Older(q) \subseteq Older(r) BY <2>1, StartedInOrder
  <2>3. q \in Older(r) /\ q \notin Older(q) BY <2>1, StartedInOrder
  <2>4. <<Older(q), Older(r)>> \in Below BY <2>2, <2>3 DEF StrictSubsetOrdering
  <2> QED BY <1>4, <1>5, <2>4
<1> QED BY <1>6

(* What the retention policy leaves: no more than it allows, nothing too old, *)
(* and nothing older than what it removes.                                  *)
LEMMA RetainedWithin ==
  ASSUME Begun, NEW F \in SUBSET Started, NEW limit \in Nat
  PROVE  /\ Retained(F, limit) \subseteq F /\ Retained(F, limit) \cap aged = {}
         /\ Cardinality(Retained(F, limit)) <= limit
<1> DEFINE fresh == F \ aged
           Above(r) == {s \in fresh : Newer(s, r)}
           R == Retained(F, limit)
<1>1. R = {r \in fresh : Cardinality(Above(r)) < limit} BY DEF Retained
<1>2. R \subseteq F /\ R \cap aged = {} BY <1>1
<1>3. CASE R = {} BY <1>2, <1>3, FS_EmptySet
<1>4. CASE R # {}
  <2>1. PICK r \in R : \A q \in R : q # r => Newer(q, r)
    BY <1>2, <1>4, OldestOf
  <2>2. R \ {r} \subseteq Above(r) BY <1>1, <2>1
  <2>3. IsFiniteSet(Above(r)) /\ Cardinality(Above(r)) \in Nat BY StartedFinite
  <2>4. IsFiniteSet(R) /\ Cardinality(R) \in Nat BY <1>2, StartedFinite
  <2>5. Cardinality(Above(r)) < limit BY <1>1, <2>1
  <2> HIDE DEF R, Above
  <2>6. Cardinality(R \ {r}) = Cardinality(R) - 1
    BY <2>1, <2>4, FS_RemoveElement
  <2>7. Cardinality(R \ {r}) <= Cardinality(Above(r)) BY <2>2, <2>3, FS_Subset
  <2>8. Cardinality(R) <= limit BY <2>3, <2>4, <2>5, <2>6, <2>7
  <2> QED BY <1>2, <2>8 DEF R
<1> QED BY <1>3, <1>4

(* What is too old is the beginning of the list of recordings.              *)
AgedFirst == \A r, s \in Started : s \in aged /\ Newer(s, r) => r \in aged

LEMMA OldestGoFirst ==
  ASSUME Begun, AgedFirst, NEW F \in SUBSET Started, NEW limit \in Nat,
         NEW r \in Retained(F, limit), NEW s \in F \ Retained(F, limit)
  PROVE  ~Newer(s, r)
<1> DEFINE fresh == F \ aged
           Above(q) == {t \in fresh : Newer(t, q)}
<1>1. r \in fresh /\ Cardinality(Above(r)) < limit BY DEF Retained
<1>2. SUFFICES ASSUME Newer(s, r) PROVE FALSE OBVIOUS
<1>3. CASE s \in aged BY <1>1, <1>2, <1>3 DEF AgedFirst
<1>4. CASE s \notin aged
  <2>1. ~(Cardinality(Above(s)) < limit) BY <1>4 DEF Retained
  <2>2. Above(s) \in SUBSET Above(r) BY <1>2, StartedInOrder
  <2>3. /\ IsFiniteSet(Above(r)) /\ Cardinality(Above(r)) \in Nat
        /\ Cardinality(Above(s)) \in Nat
    BY StartedFinite
  <2> HIDE DEF Above
  <2>4. Cardinality(Above(s)) <= Cardinality(Above(r)) BY <2>2, <2>3, FS_Subset
  <2> QED BY <1>1, <2>1, <2>3, <2>4
<1> QED BY <1>3, <1>4

-----------------------------------------------------------------------------
(* What one batch of events does to the history, the device card and what a  *)
(* recorder holds.                                                          *)
IsLesson(events, first, last) ==
  /\ {events[i].n : i \in LivePlaces(events)} = (first + 1)..last
  /\ \A i, j \in LivePlaces(events) : i < j => events[i].n < events[j].n

LEMMA NewestKept ==
  ASSUME NEW h \in Seq(EventCopies), NEW es \in Seq(EventCopies)
  PROVE  Newest(h \o es) \in Seq(EventCopies) /\ Len(Newest(h \o es)) <= HistorySize
<1> DEFINE s == h \o es
           m == IF Len(s) > HistorySize THEN Len(s) - HistorySize + 1 ELSE 1
<1>1. s \in Seq(EventCopies) BY ConcatProperties
<1>2. Len(s) \in Nat /\ HistorySize \in Nat \ {0} /\ m \in Int
  BY <1>1, RecordingsAssumption
<1>3. \A i \in m..Len(s) : s[i] \in EventCopies
  <2> HIDE DEF s
  <2> QED BY <1>1, <1>2
<1> HIDE DEF s, m
<1>4. SubSeq(s, m, Len(s)) \in Seq(EventCopies) BY <1>2, <1>3, SubSeqProperties
<1>5. Len(SubSeq(s, m, Len(s))) = IF m <= Len(s) THEN Len(s) - m + 1 ELSE 0
  BY <1>2, <1>3, SubSeqProperties
<1>6. Len(SubSeq(s, m, Len(s))) <= HistorySize BY <1>2, <1>5 DEF m
<1>7. Newest(s) = SubSeq(s, m, Len(s)) BY DEF Newest, m
<1> QED BY <1>4, <1>6, <1>7 DEF s

LEMMA ObserveLive ==
  ASSUME NEW n \in Nat
  PROVE  Observe(Live(n)) = n
<1>1. LivePlaces(Live(n)) = {1} BY DEF LivePlaces, Live
<1>2. Max({1}) = 1 BY DEF Max
<1>3. Live(n)[1].n = n BY DEF Live
<1> QED BY <1>1, <1>2, <1>3 DEF Observe

LEMMA ObserveOld ==
  ASSUME NEW es \in Seq(EventCopies), \A i \in 1..Len(es) : es[i].old
  PROVE  Observe(es) = deviceStatus
<1>1. LivePlaces(es) = {} BY DEF LivePlaces
<1> QED BY <1>1 DEF Observe

LEMMA LessonGoesOn ==
  ASSUME NEW c \in Seq(EventCopies), NEW first \in Nat, NEW last \in Nat,
         first <= last, last + 1 \in 1..MaxReadings, IsLesson(c, first, last)
  PROVE  c \o Live(last + 1) \in Seq(EventCopies) /\ IsLesson(c \o Live(last + 1), first, last + 1)
<1> DEFINE new == [n |-> last + 1, old |-> FALSE]
           d == c \o <<new>>
<1>1. new \in EventCopies /\ <<new>> \in Seq(EventCopies) /\ Len(<<new>>) = 1
      /\ <<new>>[1] = new
  BY DEF EventCopies
<1>2. new.n = last + 1 /\ new.old = FALSE OBVIOUS
<1>3. Live(last + 1) = <<new>> BY DEF Live
<1> HIDE DEF new
<1>4. /\ d \in Seq(EventCopies) /\ Len(d) = Len(c) + 1 /\ Len(c) \in Nat
      /\ \A i \in 1..Len(c) : d[i] = c[i]
      /\ d[Len(c) + 1] = new
  <2>1. /\ d \in Seq(EventCopies) /\ Len(d) = Len(c) + Len(<<new>>)
        /\ \A i \in 1..Len(c) + Len(<<new>>) :
             d[i] = IF i <= Len(c) THEN c[i] ELSE <<new>>[i - Len(c)]
    BY <1>1, ConcatProperties
  <2>2. Len(c) \in Nat OBVIOUS
  <2>3. (Len(c) + 1) - Len(c) = 1 BY <2>2
  <2> HIDE DEF d
  <2>4. \A i \in 1..Len(c) : d[i] = c[i] BY <1>1, <2>1, <2>2
  <2>5. d[Len(c) + 1] = <<new>>[(Len(c) + 1) - Len(c)] BY <1>1, <2>1, <2>2
  <2> QED BY <1>1, <2>1, <2>2, <2>3, <2>4, <2>5
<1> HIDE DEF d
<1>5. DOMAIN c = 1..Len(c) /\ DOMAIN d = 1..(Len(c) + 1) BY <1>4
<1>6. LivePlaces(d) = LivePlaces(c) \cup {Len(c) + 1}
  BY <1>2, <1>4, <1>5 DEF LivePlaces
<1>7. \A i \in LivePlaces(c) : i \in 1..Len(c) /\ d[i] = c[i] /\ c[i].n \in (first + 1)..last
  <2>1. \A i \in LivePlaces(c) : i \in 1..Len(c) BY <1>5 DEF LivePlaces
  <2>2. \A i \in LivePlaces(c) : c[i].n \in (first + 1)..last BY DEF IsLesson
  <2> QED BY <1>4, <2>1, <2>2
<1>8. {d[i].n : i \in LivePlaces(d)} = (first + 1)..(last + 1)
  <2>1. {d[i].n : i \in LivePlaces(d)} = {c[i].n : i \in LivePlaces(c)} \cup {last + 1}
    BY <1>2, <1>4, <1>6, <1>7
  <2>2. {c[i].n : i \in LivePlaces(c)} = (first + 1)..last BY DEF IsLesson
  <2>3. (first + 1)..(last + 1) = ((first + 1)..last) \cup {last + 1} OBVIOUS
  <2> QED BY <2>1, <2>2, <2>3
<1>9. ASSUME NEW i \in LivePlaces(d), NEW j \in LivePlaces(d), i < j
      PROVE  d[i].n < d[j].n
  <2>1. i \in LivePlaces(c)
    <3>1. CASE j = Len(c) + 1 BY <1>6, <1>9, <3>1, <1>4
    <3>2. CASE j \in LivePlaces(c) BY <1>4, <1>6, <1>7, <1>9, <3>2
    <3> QED BY <1>6, <3>1, <3>2
  <2>2. CASE j \in LivePlaces(c) BY <1>7, <1>9, <2>1, <2>2 DEF IsLesson
  <2>3. CASE j = Len(c) + 1
    <3>1. d[j].n = last + 1 BY <1>2, <1>4, <2>3
    <3>2. d[i].n \in (first + 1)..last BY <1>7, <2>1
    <3> QED BY <3>1, <3>2
  <2> QED BY <1>6, <2>2, <2>3
<1>10. IsLesson(d, first, last + 1) BY <1>8, <1>9 DEF IsLesson
<1> QED BY <1>3, <1>4, <1>10 DEF d

LEMMA LessonKept ==
  ASSUME NEW c \in Seq(EventCopies), NEW es \in Seq(EventCopies), NEW first, NEW last,
         \A i \in 1..Len(es) : es[i].old, IsLesson(c, first, last)
  PROVE  c \o es \in Seq(EventCopies) /\ IsLesson(c \o es, first, last)
<1> DEFINE d == c \o es
<1>1. /\ d \in Seq(EventCopies) /\ Len(d) = Len(c) + Len(es)
      /\ \A i \in 1..Len(c) + Len(es) : d[i] = IF i <= Len(c) THEN c[i] ELSE es[i - Len(c)]
  BY ConcatProperties
<1> HIDE DEF d
<1>2. Len(c) \in Nat /\ Len(es) \in Nat OBVIOUS
<1>3. \A i \in 1..Len(c) : d[i] = c[i] BY <1>1, <1>2
<1>4. \A i \in (Len(c) + 1)..(Len(c) + Len(es)) : d[i].old
  <2> TAKE i \in (Len(c) + 1)..(Len(c) + Len(es))
  <2>1. d[i] = es[i - Len(c)] /\ i - Len(c) \in 1..Len(es) BY <1>1, <1>2
  <2> QED BY <2>1
<1>5. LivePlaces(d) = LivePlaces(c)
  <2>1. DOMAIN c = 1..Len(c) /\ DOMAIN d = 1..(Len(c) + Len(es)) BY <1>1, <1>2
  <2> QED BY <1>2, <1>3, <1>4, <2>1 DEF LivePlaces
<1>6. \A i \in LivePlaces(c) : d[i] = c[i]
  BY <1>3 DEF LivePlaces
<1>7. IsLesson(d, first, last) BY <1>5, <1>6 DEF IsLesson
<1> QED BY <1>1, <1>7 DEF d

LEMMA NothingIsNoLesson ==
  ASSUME NEW p \in Nat
  PROVE  IsLesson(<<>>, p, p)
<1>1. LivePlaces(<<>>) = {} BY DEF LivePlaces
<1>2. (p + 1)..p = {} OBVIOUS
<1> QED BY <1>1, <1>2 DEF IsLesson

-----------------------------------------------------------------------------
(* The invariant: the router, what the recorders hold, the store, and the    *)
(* histories of what was deleted and pruned.                                *)
RouterOK ==
  /\ published \in 0..MaxReadings /\ lifeStart \in 0..published
  /\ history \in Seq(EventCopies) /\ Len(history) <= HistorySize
  /\ ConsoleShowsLive
  /\ reading \in EventCopies \cup {NoReading}
  /\ replays \in 0..MaxReplays /\ recFaults \in 0..MaxRecFaults

(* A recorder that runs has heard everything to the last, and one that was   *)
(* not started nothing.                                                     *)
HeldOK(r) ==
  /\ span[r] \in (0..published) \X (0..published) /\ span[r][1] <= span[r][2]
  /\ IsLesson(captured[r], span[r][1], span[r][2])
  /\ r \in recorders => span[r][2] = published
  /\ r \notin Started => captured[r] = <<>>

ContentOK ==
  /\ captured \in [LessonRecs -> Seq(EventCopies)] /\ DOMAIN span = LessonRecs
  /\ span = [r \in LessonRecs |-> span[r]]
  /\ \A r \in LessonRecs : HeldOK(r)

StoreOK ==
  /\ Begun /\ recorders \subseteq Started
  /\ recorders \cap (memory \cup disk \cup torn) = {}
  /\ memory \cup disk \cup torn \cup aged \subseteq Started
  /\ kept \in KeptChoices \cup {KeptDefault}
  /\ AgedFirst

GoneOK ==
  /\ handedOut \subseteq deleted /\ deleted \subseteq Started
  /\ prunedAudit \subseteq pruned /\ pruned \subseteq Started

RecordingsInv == RouterOK /\ ContentOK /\ StoreOK /\ GoneOK

(* No life of the runtime hears more events than the dedupe window remembers. *)
WithinWindow == published <= lifeStart + DedupeWindow

LEMMA RecordingsInvImplies ==
  RecordingsInv => RecordingsTypeOK /\ RecordingIsTheLesson /\ ConsoleShowsLive
<1> SUFFICES ASSUME RecordingsInv
             PROVE  RecordingsTypeOK /\ RecordingIsTheLesson /\ ConsoleShowsLive
  OBVIOUS
<1>1. ConsoleShowsLive BY DEF RecordingsInv, RouterOK
<1>2. RecordingIsTheLesson
  BY DEF RecordingsInv, ContentOK, HeldOK, IsLesson, RecordingIsTheLesson
<1>3. deviceStatus \in 0..published
  BY RecordingsAssumption DEF RecordingsInv, RouterOK, ConsoleShowsLive
<1>4. RecordingsTypeOK
  BY <1>3 DEF RecordingsInv, RouterOK, ContentOK, HeldOK, StoreOK, GoneOK, Begun, Started,
              RecordingsTypeOK
<1> QED BY <1>1, <1>2, <1>4

LEMMA RecordingsInitInv == RecordingsInit => RecordingsInv
<1> SUFFICES ASSUME RecordingsInit PROVE RecordingsInv
  OBVIOUS
<1> USE RecordingsAssumption
<1>1. Begun /\ Started = {}
  BY DEF RecordingsInit, Begun, Started, ToSet, IsInjective
<1>2. RouterOK BY DEF RecordingsInit, RouterOK, ConsoleShowsLive
<1>3. ContentOK
  <2>1. \A r \in LessonRecs : span[r] = <<0, 0>> /\ captured[r] = <<>>
    BY DEF RecordingsInit
  <2>2. published = 0 /\ recorders = {} BY DEF RecordingsInit
  <2>3. ASSUME NEW r \in LessonRecs PROVE HeldOK(r)
    <3>1. span[r] = <<0, 0>> /\ captured[r] = <<>> BY <2>1
    <3>2. IsLesson(<<>>, 0, 0) BY NothingIsNoLesson
    <3>3. span[r][1] = 0 /\ span[r][2] = 0 BY <3>1
    <3>4. IsLesson(captured[r], span[r][1], span[r][2]) BY <3>1, <3>2, <3>3
    <3>5. span[r] \in (0..published) \X (0..published) BY <2>2, <3>1
    <3> QED BY <2>2, <3>1, <3>3, <3>4, <3>5 DEF HeldOK
  <2> QED BY <2>3 DEF RecordingsInit, ContentOK
<1>4. StoreOK BY <1>1 DEF RecordingsInit, StoreOK, AgedFirst
<1>5. GoneOK BY DEF RecordingsInit, GoneOK
<1> QED BY <1>2, <1>3, <1>4, <1>5 DEF RecordingsInv

LEMMA RecordingsParts ==
  ASSUME RecordingsInv
  PROVE  RouterOK /\ ContentOK /\ StoreOK /\ GoneOK /\ Begun
BY DEF RecordingsInv, StoreOK

(* What a step that leaves a part's variables alone leaves of it.            *)
LEMMA PartsStay ==
  ASSUME RecordingsInv
  PROVE  /\ UNCHANGED <<routerVars, reading, recFaults>> => RouterOK'
         /\ UNCHANGED <<contentVars, published>> => ContentOK'
         /\ UNCHANGED <<begun, recorders, storeVars>> => StoreOK'
         /\ UNCHANGED <<begun, deleted, handedOut, pruned, prunedAudit>> => GoneOK'
<1>1. UNCHANGED <<routerVars, reading, recFaults>> => RouterOK'
  BY RecordingsParts DEF routerVars, RouterOK, ConsoleShowsLive
<1>2. UNCHANGED <<contentVars, published>> => ContentOK'
  BY RecordingsParts DEF contentVars, ContentOK, HeldOK, Started
<1>3. UNCHANGED <<begun, recorders, storeVars>> => StoreOK'
  BY RecordingsParts DEF storeVars, StoreOK, Begun, Started, AgedFirst, Newer
<1>4. UNCHANGED <<begun, deleted, handedOut, pruned, prunedAudit>> => GoneOK'
  BY RecordingsParts DEF GoneOK, Started
<1> QED BY <1>1, <1>2, <1>3, <1>4

(* A batch in which nothing is live changes neither card nor lesson.         *)
LEMMA OldEventsPublished ==
  ASSUME RecordingsInv, NEW es \in Seq(EventCopies), \A i \in 1..Len(es) : es[i].old,
         PublishEvents(es), UNCHANGED <<published, lifeStart, begun, recorders, span, reading>>,
         replays' \in 0..MaxReplays, recFaults' \in 0..MaxRecFaults
  PROVE  RouterOK' /\ ContentOK'
<1>1. /\ history' = Newest(history \o es) /\ deviceStatus' = Observe(es)
      /\ captured' = [r \in LessonRecs |-> IF r \in recorders THEN captured[r] \o es
                                                              ELSE captured[r]]
  BY DEF PublishEvents
<1>2. RouterOK'
  <2>1. history' \in Seq(EventCopies) /\ Len(history') <= HistorySize
    BY <1>1, NewestKept, RecordingsParts DEF RouterOK
  <2>2. deviceStatus' = deviceStatus BY <1>1, ObserveOld
  <2> QED BY <2>1, <2>2, RecordingsParts DEF RouterOK, ConsoleShowsLive
<1>3. ContentOK'
  <2>1. ASSUME NEW r \in LessonRecs
        PROVE  captured'[r] \in Seq(EventCopies) /\ HeldOK(r)'
    <3>1. captured[r] \in Seq(EventCopies) /\ HeldOK(r) BY RecordingsParts DEF ContentOK
    <3>2. CASE r \in recorders
      <4>1. captured'[r] = captured[r] \o es BY <1>1, <3>2
      <4>2. /\ captured'[r] \in Seq(EventCopies)
            /\ IsLesson(captured'[r], span[r][1], span[r][2])
        BY <3>1, <4>1, LessonKept DEF HeldOK
      <4>3. r \in Started BY <3>2, RecordingsParts DEF StoreOK
      <4> QED BY <3>1, <4>2, <4>3 DEF HeldOK, Started
    <3>3. CASE r \notin recorders
      <4>1. captured'[r] = captured[r] BY <1>1, <3>3
      <4> QED BY <3>1, <4>1 DEF HeldOK, Started
    <3> QED BY <3>2, <3>3
  <2>2. captured' \in [LessonRecs -> Seq(EventCopies)] BY <1>1, <2>1
  <2> QED BY <2>1, <2>2, RecordingsParts DEF ContentOK
<1> QED BY <1>2, <1>3

-----------------------------------------------------------------------------
(* The steps of the router.                                                 *)
LEMMA ReportInv ==
  ASSUME RecordingsInv, Report
  PROVE  RecordingsInv'
<1> USE RecordingsAssumption
<1>1. /\ published < MaxReadings /\ published' = published + 1
      /\ span' = [r \in LessonRecs |->
                    IF r \in recorders THEN <<span[r][1], published + 1>> ELSE span[r]]
      /\ history' = Newest(history \o Live(published + 1))
      /\ deviceStatus' = Observe(Live(published + 1))
      /\ captured' = [r \in LessonRecs |-> IF r \in recorders THEN captured[r] \o Live(published + 1)
                                                              ELSE captured[r]]
      /\ UNCHANGED <<lifeStart, replays, begun, recorders, storeVars, ghostVars, recFaults>>
  BY DEF Report, PublishEvents
<1>2. published \in Nat /\ published + 1 \in 1..MaxReadings /\ lifeStart \in 0..published
  BY <1>1, RecordingsParts DEF RouterOK
<1>3. RouterOK'
  <2>1. Live(published + 1) \in Seq(EventCopies)
    <3>1. [n |-> published + 1, old |-> FALSE] \in EventCopies BY <1>2 DEF EventCopies
    <3> QED BY <3>1 DEF Live
  <2>2. history' \in Seq(EventCopies) /\ Len(history') <= HistorySize
    BY <1>1, <2>1, NewestKept, RecordingsParts DEF RouterOK
  <2>3. deviceStatus' = published + 1 BY <1>1, <1>2, ObserveLive
  <2>4. ConsoleShowsLive' BY <1>1, <1>2, <2>3 DEF ConsoleShowsLive
  <2>5. UNCHANGED <<reading, replays, recFaults, lifeStart>> BY <1>1 DEF ghostVars
  <2> QED BY <1>1, <1>2, <2>2, <2>4, <2>5, RecordingsParts DEF RouterOK
<1>4. ContentOK'
  <2>1. ASSUME NEW r \in LessonRecs
        PROVE  captured'[r] \in Seq(EventCopies) /\ HeldOK(r)'
    <3>1. captured[r] \in Seq(EventCopies) /\ HeldOK(r) BY RecordingsParts DEF ContentOK
    <3>2. CASE r \in recorders
      <4>1. /\ captured'[r] = captured[r] \o Live(published + 1)
            /\ span'[r] = <<span[r][1], published + 1>>
        BY <1>1, <3>2
      <4>2. /\ span[r][1] \in Nat /\ span[r][1] <= published
            /\ span[r][2] = published /\ IsLesson(captured[r], span[r][1], published)
        BY <1>2, <3>1, <3>2 DEF HeldOK
      <4>3. /\ captured'[r] \in Seq(EventCopies)
            /\ IsLesson(captured'[r], span[r][1], published + 1)
        BY <1>2, <3>1, <4>1, <4>2, LessonGoesOn
      <4>4. /\ span'[r][1] = span[r][1] /\ span'[r][2] = published + 1
            /\ span'[r] \in (0..published') \X (0..published')
        BY <1>1, <1>2, <4>1, <4>2
      <4>5. r \in Started' BY <1>1, <3>2, RecordingsParts DEF StoreOK, Started
      <4> QED BY <1>1, <1>2, <4>2, <4>3, <4>4, <4>5 DEF HeldOK
    <3>3. CASE r \notin recorders
      <4>1. captured'[r] = captured[r] /\ span'[r] = span[r] BY <1>1, <3>3
      <4>2. span[r] \in (0..published') \X (0..published') BY <1>1, <1>2, <3>1 DEF HeldOK
      <4> QED BY <1>1, <3>1, <3>3, <4>1, <4>2 DEF HeldOK, Started
    <3> QED BY <3>2, <3>3
  <2>2. captured' \in [LessonRecs -> Seq(EventCopies)] BY <1>1, <2>1
  <2>3. DOMAIN span' = LessonRecs /\ span' = [r \in LessonRecs |-> span'[r]] BY <1>1
  <2> QED BY <2>1, <2>2, <2>3 DEF ContentOK
<1>5. StoreOK' /\ GoneOK' BY <1>1, PartsStay DEF ghostVars
<1> QED BY <1>3, <1>4, <1>5 DEF RecordingsInv

(* Within its window the router knows every event it is handed again.        *)
LEMMA ReportAgainInv ==
  ASSUME RecordingsInv, WithinWindow, ReportAgain
  PROVE  RecordingsInv'
<1> USE RecordingsAssumption
<1>1. PICK n \in (lifeStart + 1)..published :
        /\ RecFault /\ PublishEvents(IF Seen(n) THEN <<>> ELSE Live(n))
        /\ UNCHANGED <<published, lifeStart, replays, begun, recorders, span>>
        /\ UNCHANGED <<storeVars, ghostVars>>
  BY DEF ReportAgain
<1>2. Seen(n) BY <1>1, RecordingsParts DEF Seen, WithinWindow, RouterOK
<1>3. PublishEvents(<<>>) BY <1>1, <1>2
<1>4. recFaults' \in 0..MaxRecFaults BY <1>1, RecordingsParts DEF RecFault, RouterOK
<1>5. <<>> \in Seq(EventCopies) /\ \A i \in 1..Len(<<>>) : <<>>[i].old
  <2>1. Len(<<>>) = 0 /\ 1..0 = {} OBVIOUS
  <2>2. <<>> \in Seq(EventCopies) OBVIOUS
  <2> QED BY <2>1, <2>2
<1>6. reading' = reading /\ replays' \in 0..MaxReplays
  BY <1>1, RecordingsParts DEF ghostVars, RouterOK
<1>7. RouterOK' /\ ContentOK' BY <1>1, <1>3, <1>4, <1>5, <1>6, OldEventsPublished
<1>8. StoreOK' /\ GoneOK' BY <1>1, PartsStay DEF ghostVars
<1> QED BY <1>7, <1>8 DEF RecordingsInv

LEMMA ReplayInv ==
  ASSUME RecordingsInv, NEW r \in LessonRecs, ReplayRecording(r)
  PROVE  RecordingsInv'
<1>1. /\ replays < MaxReplays /\ replays' = replays + 1
      /\ PublishEvents(Old(captured[r]))
      /\ handedOut' = handedOut \cup ({r} \cap deleted)
      /\ UNCHANGED <<published, lifeStart, begun, recorders, span>>
      /\ UNCHANGED <<storeVars, reading, deleted, pruned, prunedAudit, recFaults>>
  BY DEF ReplayRecording, HandsOut
<1>2. captured[r] \in Seq(EventCopies) BY RecordingsParts DEF ContentOK
<1>3. /\ Old(captured[r]) \in Seq(EventCopies)
      /\ \A i \in 1..Len(Old(captured[r])) : Old(captured[r])[i].old
  <2>1. DOMAIN captured[r] = 1..Len(captured[r]) /\ Len(captured[r]) \in Nat BY <1>2
  <2>2. ASSUME NEW i \in 1..Len(captured[r])
        PROVE  [captured[r][i] EXCEPT !.old = TRUE] \in EventCopies
    <3>1. captured[r][i] \in EventCopies BY <1>2
    <3> QED BY <3>1 DEF EventCopies
  <2>3. Old(captured[r]) = [i \in 1..Len(captured[r]) |-> [captured[r][i] EXCEPT !.old = TRUE]]
    BY <2>1 DEF Old
  <2>4. Old(captured[r]) \in Seq(EventCopies) BY <2>1, <2>2, <2>3
  <2>5. Len(Old(captured[r])) = Len(captured[r]) BY <2>1, <2>3, <2>4
  <2>6. ASSUME NEW i \in 1..Len(captured[r])
        PROVE  [captured[r][i] EXCEPT !.old = TRUE].old
    <3>1. captured[r][i] \in EventCopies BY <1>2
    <3> QED BY <3>1 DEF EventCopies
  <2> QED BY <2>3, <2>4, <2>5, <2>6
<1>4. replays' \in 0..MaxReplays /\ recFaults' \in 0..MaxRecFaults
  BY <1>1, RecordingsAssumption, RecordingsParts DEF RouterOK
<1>5. RouterOK' /\ ContentOK' BY <1>1, <1>3, <1>4, OldEventsPublished
<1>6. StoreOK' BY <1>1, PartsStay
<1>7. GoneOK' BY <1>1, RecordingsParts DEF GoneOK, Started
<1> QED BY <1>5, <1>6, <1>7 DEF RecordingsInv

-----------------------------------------------------------------------------
(* The steps of the recorders and of the store.  A recorder that starts is   *)
(* the newest there is.                                                     *)
LEMMA BeginsInOrder ==
  ASSUME Begun, NEW r \in LessonRecs, r \notin Started, begun' = Append(begun, r)
  PROVE  /\ Begun' /\ Started' = Started \cup {r}
         /\ \A p, q \in Started : Newer(p, q)' <=> Newer(p, q)
         /\ \A p \in Started : ~Newer(p, r)'
<1>1. /\ Len(begun) \in Nat /\ DOMAIN begun = 1..Len(begun) /\ begun \in Seq(LessonRecs)
      /\ \A i \in 1..Len(begun) : begun[i] \in Started
      /\ \A i, j \in 1..Len(begun) : begun[i] = begun[j] => i = j
  BY StartedAt DEF Begun
<1>2. /\ begun' \in Seq(LessonRecs) /\ Len(begun') = Len(begun) + 1
      /\ DOMAIN begun' = 1..(Len(begun) + 1)
      /\ \A i \in 1..Len(begun) : begun'[i] = begun[i]
      /\ begun'[Len(begun) + 1] = r
  BY <1>1, AppendProperties
<1>3. \A i, j \in 1..(Len(begun) + 1) : begun'[i] = begun'[j] => i = j
  <2> SUFFICES ASSUME NEW i \in 1..(Len(begun) + 1), NEW j \in 1..(Len(begun) + 1),
                      begun'[i] = begun'[j]
               PROVE  i = j
    OBVIOUS
  <2>1. CASE i \in 1..Len(begun) /\ j \in 1..Len(begun) BY <1>1, <1>2, <2>1
  <2>2. CASE i \in 1..Len(begun) /\ j = Len(begun) + 1 BY <1>1, <1>2, <2>2
  <2>3. CASE i = Len(begun) + 1 /\ j \in 1..Len(begun) BY <1>1, <1>2, <2>3
  <2>4. CASE i = Len(begun) + 1 /\ j = Len(begun) + 1 BY <2>4
  <2> QED BY <1>1, <2>1, <2>2, <2>3, <2>4
<1>4. Begun' BY <1>2, <1>3 DEF Begun, IsInjective
<1>5. Started' = Started \cup {r}
  <2>1. \A q : q \in Started' <=> \E i \in 1..(Len(begun) + 1) : begun'[i] = q
    BY <1>2 DEF Started, ToSet
  <2>2. \A q : q \in Started <=> \E i \in 1..Len(begun) : begun[i] = q BY StartedAt
  <2>3. \A i : i \in 1..(Len(begun) + 1) <=> i \in 1..Len(begun) \/ i = Len(begun) + 1
    BY <1>1
  <2> QED BY <1>2, <2>1, <2>2, <2>3
<1>6. \A p, q : Newer(p, q)' <=> \E i, j \in 1..(Len(begun) + 1) :
                                  i > j /\ begun'[i] = p /\ begun'[j] = q
  BY <1>2 DEF Newer
<1>7. \A p, q : Newer(p, q) <=> \E i, j \in 1..Len(begun) :
                                  i > j /\ begun[i] = p /\ begun[j] = q
  BY StartedAt
<1>8. \A p \in Started, i \in 1..(Len(begun) + 1) :
        begun'[i] = p => i \in 1..Len(begun) /\ begun[i] = p
  BY <1>1, <1>2
<1>9. ASSUME NEW p \in Started, NEW q \in Started PROVE Newer(p, q)' <=> Newer(p, q)
  <2>1. Newer(p, q)' => Newer(p, q) BY <1>6, <1>7, <1>8
  <2>2. ASSUME Newer(p, q) PROVE Newer(p, q)'
    <3>1. PICK i, j \in 1..Len(begun) : i > j /\ begun[i] = p /\ begun[j] = q
      BY <1>7, <2>2
    <3>2. i \in 1..(Len(begun) + 1) /\ j \in 1..(Len(begun) + 1) BY <1>1
    <3> QED BY <1>2, <1>6, <3>1, <3>2
  <2> QED BY <2>1, <2>2
<1>10. ASSUME NEW p \in Started, Newer(p, r)' PROVE FALSE
  <2>1. PICK i, j \in 1..(Len(begun) + 1) : i > j /\ begun'[i] = p /\ begun'[j] = r
    BY <1>6, <1>10
  <2>2. i \in 1..Len(begun) BY <1>8, <2>1
  <2>3. j = Len(begun) + 1 BY <1>1, <1>2, <1>3, <2>1
  <2> QED BY <1>1, <2>1, <2>2, <2>3
<1> QED BY <1>4, <1>5, <1>9, <1>10

LEMMA StartRecordingInv ==
  ASSUME RecordingsInv, NEW r \in LessonRecs, StartRecording(r)
  PROVE  RecordingsInv'
<1>1. /\ r \notin Started /\ begun' = Append(begun, r) /\ recorders' = recorders \cup {r}
      /\ span' = [span EXCEPT ![r] = <<published, published>>]
      /\ UNCHANGED <<routerVars, captured, storeVars, ghostVars, recFaults>>
  BY DEF StartRecording, Begins, Started
<1>2. Begun /\ Begun' /\ Started' = Started \cup {r}
  BY <1>1, BeginsInOrder, RecordingsParts
<1>3. published' = published /\ captured' = captured /\ published \in Nat
  BY <1>1, RecordingsParts DEF routerVars, RouterOK
<1>4. RouterOK' BY <1>1, PartsStay DEF ghostVars
<1>5. ContentOK'
  <2>1. DOMAIN span = LessonRecs BY RecordingsParts DEF ContentOK
  <2>2. DOMAIN span' = LessonRecs /\ span' = [q \in LessonRecs |-> span'[q]] BY <1>1, <2>1
  <2>3. ASSUME NEW q \in LessonRecs PROVE HeldOK(q)'
    <3>1. HeldOK(q) BY RecordingsParts DEF ContentOK
    <3>2. CASE q = r
      <4>1. captured'[r] = <<>> BY <1>1, <1>3, <3>1, <3>2 DEF HeldOK
      <4>2. span'[r] = <<published, published>> BY <1>1, <2>1
      <4>3. /\ span'[r][1] = published /\ span'[r][2] = published
            /\ span'[r] \in (0..published') \X (0..published')
        BY <1>3, <4>2
      <4>4. IsLesson(<<>>, published, published) BY <1>3, NothingIsNoLesson
      <4>5. IsLesson(captured'[r], span'[r][1], span'[r][2]) BY <4>1, <4>3, <4>4
      <4>6. r \in Started' BY <1>2
      <4> QED BY <1>3, <3>2, <4>3, <4>5, <4>6 DEF HeldOK
    <3>3. CASE q # r
      <4>1. span'[q] = span[q] /\ captured'[q] = captured[q] BY <1>1, <1>3, <2>1, <3>3
      <4>2. q \in recorders' => q \in recorders BY <1>1, <3>3
      <4>3. q \notin Started' => q \notin Started BY <1>2
      <4> QED BY <1>3, <3>1, <4>1, <4>2, <4>3 DEF HeldOK
    <3> QED BY <3>2, <3>3
  <2> QED BY <1>3, <2>2, <2>3, RecordingsParts DEF ContentOK
<1>6. StoreOK'
  <2>1. /\ UNCHANGED <<memory, disk, torn, kept, aged>> /\ r \notin memory \cup disk \cup torn
        /\ aged \subseteq Started
    BY <1>1, RecordingsParts DEF storeVars, StoreOK
  <2>2. /\ \A p, q \in Started : Newer(p, q)' <=> Newer(p, q)
        /\ \A p \in Started : ~Newer(p, r)'
    BY <1>1, BeginsInOrder, RecordingsParts
  <2>3. AgedFirst'
    <3> SUFFICES ASSUME NEW p \in Started', NEW s \in Started', s \in aged', Newer(s, p)'
                 PROVE  p \in aged'
      BY DEF AgedFirst
    <3>1. s \in aged /\ s \in Started BY <2>1
    <3>2. p \in Started BY <1>2, <2>2, <3>1
    <3>3. Newer(s, p) BY <2>2, <3>1, <3>2
    <3> QED BY <2>1, <3>1, <3>2, <3>3, RecordingsParts DEF StoreOK, AgedFirst
  <2> QED BY <1>1, <1>2, <2>1, <2>3, RecordingsParts DEF StoreOK
<1>7. GoneOK' BY <1>1, <1>2, RecordingsParts DEF ghostVars, GoneOK
<1> QED BY <1>4, <1>5, <1>6, <1>7 DEF RecordingsInv

(* A recorder that no longer runs keeps what it heard.                       *)
LEMMA ContentStays ==
  ASSUME RecordingsInv, UNCHANGED <<published, begun, captured, span>>, recorders' \subseteq recorders
  PROVE  ContentOK'
<1>1. \A r \in LessonRecs : HeldOK(r)' BY RecordingsParts DEF ContentOK, HeldOK, Started
<1> QED BY <1>1, RecordingsParts DEF ContentOK

LEMMA StopRecordingInv ==
  ASSUME RecordingsInv, NEW r \in LessonRecs, StopRecording(r)
  PROVE  RecordingsInv'
<1> DEFINE left == Retained(Saved(r), kept)
<1>1. /\ r \in recorders /\ recorders' = recorders \ {r} /\ memory' = memory \cup {r}
      /\ disk' = left /\ pruned' = pruned \cup ((disk \cup {r}) \ left)
      /\ prunedAudit' = prunedAudit \cup (Saved(r) \ left)
      /\ UNCHANGED <<routerVars, begun, captured, span>>
      /\ UNCHANGED <<torn, kept, aged, reading, deleted, handedOut, recFaults>>
  BY DEF StopRecording, Finishes, Removes, Audited
<1>2. r \in Started /\ disk \subseteq Started BY <1>1, RecordingsParts DEF StoreOK
<1>3. Saved(r) \subseteq disk \cup {r} BY DEF Saved, Retained
<1>4. left \subseteq Saved(r) BY DEF Retained
<1> HIDE DEF left
<1>5. RouterOK' BY <1>1, PartsStay
<1>6. ContentOK' BY <1>1, ContentStays DEF routerVars
<1>7. StoreOK'
  <2>1. Begun' /\ Started' = Started /\ AgedFirst'
    BY <1>1, RecordingsParts DEF StoreOK, Begun, Started, AgedFirst, Newer
  <2> QED BY <1>1, <1>2, <1>3, <1>4, <2>1, RecordingsParts DEF StoreOK
<1>8. GoneOK' BY <1>1, <1>2, <1>3, RecordingsParts DEF GoneOK, Started
<1> QED BY <1>5, <1>6, <1>7, <1>8 DEF RecordingsInv

LEMMA StopUnsavedInv ==
  ASSUME RecordingsInv, NEW r \in LessonRecs, StopUnsaved(r)
  PROVE  RecordingsInv'
<1>1. /\ r \in recorders /\ recorders' = recorders \ {r} /\ memory' = memory \cup {r}
      /\ recFaults < MaxRecFaults /\ recFaults' = recFaults + 1
      /\ UNCHANGED <<routerVars, begun, captured, span, disk, torn, kept, aged, ghostVars>>
  BY DEF StopUnsaved, Finishes, RecFault
<1>2. RouterOK'
  <2>1. UNCHANGED <<published, lifeStart, history, deviceStatus, replays, reading>>
    BY <1>1 DEF routerVars, ghostVars
  <2>2. recFaults' \in 0..MaxRecFaults BY <1>1, RecordingsParts, RecordingsAssumption DEF RouterOK
  <2> QED BY <2>1, <2>2, RecordingsParts DEF RouterOK, ConsoleShowsLive
<1>3. ContentOK' BY <1>1, ContentStays DEF routerVars
<1>4. StoreOK'
  <2>1. Begun' /\ Started' = Started /\ AgedFirst'
    BY <1>1, RecordingsParts DEF StoreOK, Begun, Started, AgedFirst, Newer
  <2> QED BY <1>1, <2>1, RecordingsParts DEF StoreOK
<1>5. GoneOK' BY <1>1, PartsStay DEF ghostVars
<1> QED BY <1>2, <1>3, <1>4, <1>5 DEF RecordingsInv

LEMMA ExportRecordingInv ==
  ASSUME RecordingsInv, NEW r \in LessonRecs, ExportRecording(r)
  PROVE  RecordingsInv'
<1>1. /\ handedOut' = handedOut \cup ({r} \cap deleted)
      /\ UNCHANGED <<routerVars, contentVars, storeVars, recFaults>>
      /\ UNCHANGED <<reading, deleted, pruned, prunedAudit>>
  BY DEF ExportRecording, HandsOut
<1>2. RouterOK' /\ ContentOK' /\ StoreOK' BY <1>1, PartsStay DEF routerVars, contentVars
<1>3. GoneOK' BY <1>1, RecordingsParts DEF GoneOK, Started, contentVars
<1> QED BY <1>2, <1>3 DEF RecordingsInv

LEMMA DeleteRecordingInv ==
  ASSUME RecordingsInv, NEW r \in LessonRecs, DeleteRecording(r)
  PROVE  RecordingsInv'
<1>1. /\ disk' = disk \ {r} /\ torn' = torn \ {r}
      /\ deleted' = deleted \cup ({r} \cap (disk \cup torn))
      /\ UNCHANGED <<routerVars, contentVars, memory, kept, aged, recFaults>>
      /\ UNCHANGED <<reading, handedOut, pruned, prunedAudit>>
  BY DEF DeleteRecording
<1>2. RouterOK' /\ ContentOK' BY <1>1, PartsStay DEF routerVars, contentVars
<1>3. UNCHANGED <<begun, recorders>> BY <1>1 DEF contentVars
<1>4. StoreOK'
  <2>1. Begun' /\ Started' = Started /\ AgedFirst'
    BY <1>1, <1>3, RecordingsParts DEF StoreOK, Begun, Started, AgedFirst, Newer
  <2> QED BY <1>1, <1>3, <2>1, RecordingsParts DEF StoreOK
<1>5. GoneOK' BY <1>1, <1>3, RecordingsParts DEF GoneOK, StoreOK, Started
<1> QED BY <1>2, <1>4, <1>5 DEF RecordingsInv

LEMMA SetRetentionInv ==
  ASSUME RecordingsInv, SetRetention
  PROVE  RecordingsInv'
<1>1. PICK k \in KeptChoices \ {kept} :
        /\ kept' = k /\ disk' = Retained(disk, k)
        /\ pruned' = pruned \cup (disk \ Retained(disk, k))
        /\ UNCHANGED <<routerVars, contentVars, memory, torn, aged>>
        /\ UNCHANGED <<reading, deleted, handedOut, prunedAudit, recFaults>>
  BY DEF SetRetention, Removes
<1>2. Retained(disk, k) \subseteq disk BY DEF Retained
<1>3. RouterOK' /\ ContentOK' BY <1>1, PartsStay DEF routerVars, contentVars
<1>4. UNCHANGED <<begun, recorders>> BY <1>1 DEF contentVars
<1>5. StoreOK'
  <2>1. Begun' /\ Started' = Started /\ AgedFirst'
    BY <1>1, <1>4, RecordingsParts DEF StoreOK, Begun, Started, AgedFirst, Newer
  <2> QED BY <1>1, <1>2, <1>4, <2>1, RecordingsParts DEF StoreOK
<1>6. GoneOK' BY <1>1, <1>4, RecordingsParts DEF GoneOK, StoreOK, Started
<1> QED BY <1>3, <1>5, <1>6 DEF RecordingsInv

LEMMA ReadSensorInv ==
  ASSUME RecordingsInv, ReadSensor
  PROVE  RecordingsInv'
<1>1. /\ reading' = IF history = <<>> THEN NoReading ELSE Last(history)
      /\ UNCHANGED <<routerVars, contentVars, storeVars, recFaults>>
      /\ UNCHANGED <<deleted, handedOut, pruned, prunedAudit>>
  BY DEF ReadSensor
<1>2. reading' \in EventCopies \cup {NoReading}
  <2>1. CASE history = <<>> BY <1>1, <2>1
  <2>2. CASE history # <<>>
    <3>1. history \in Seq(EventCopies) BY RecordingsParts DEF RouterOK
    <3>2. Len(history) \in 1..Len(history) BY <2>2, <3>1
    <3>3. history[Len(history)] \in EventCopies BY <3>1, <3>2
    <3>4. reading' = history[Len(history)] BY <1>1, <2>2 DEF Last
    <3> QED BY <3>3, <3>4
  <2> QED BY <2>1, <2>2
<1>3. RouterOK' BY <1>1, <1>2, RecordingsParts DEF routerVars, RouterOK, ConsoleShowsLive
<1>4. ContentOK' /\ StoreOK' /\ GoneOK' BY <1>1, PartsStay DEF routerVars, contentVars
<1> QED BY <1>3, <1>4 DEF RecordingsInv

LEMMA TimePassesInv ==
  ASSUME RecordingsInv, TimePasses
  PROVE  RecordingsInv'
<1>1. PICK r \in Started \ (recorders \cup aged) :
        /\ \A s \in Started : Newer(r, s) => s \in aged
        /\ aged' = aged \cup {r}
        /\ UNCHANGED <<routerVars, contentVars, memory, disk, torn, kept>>
        /\ UNCHANGED <<ghostVars, recFaults>>
  BY DEF TimePasses, Started
<1>2. RouterOK' /\ ContentOK' BY <1>1, PartsStay DEF routerVars, contentVars, ghostVars
<1>3. UNCHANGED <<begun, recorders>> BY <1>1 DEF contentVars
<1>4. AgedFirst'
  <2> SUFFICES ASSUME NEW q \in Started, NEW s \in Started, s \in aged', Newer(s, q)
               PROVE  q \in aged'
    BY <1>3 DEF AgedFirst, Started, Newer
  <2>1. CASE s = r BY <1>1, <2>1
  <2>2. CASE s # r
    <3>1. s \in aged BY <1>1, <2>2
    <3> QED BY <1>1, <3>1, RecordingsParts DEF StoreOK, AgedFirst
  <2> QED BY <2>1, <2>2
<1>5. StoreOK'
  <2>1. Begun' /\ Started' = Started
    BY <1>3, RecordingsParts DEF StoreOK, Begun, Started
  <2> QED BY <1>1, <1>3, <1>4, <2>1, RecordingsParts DEF StoreOK
<1>6. GoneOK' BY <1>1, <1>3, PartsStay DEF ghostVars
<1> QED BY <1>2, <1>5, <1>6 DEF RecordingsInv

LEMMA RecordingsRestartInv ==
  ASSUME RecordingsInv, Restart
  PROVE  RecordingsInv'
<1> USE RecordingsAssumption
<1>1. /\ recFaults < MaxRecFaults /\ recFaults' = recFaults + 1
      /\ lifeStart' = published /\ history' = <<>> /\ deviceStatus' = 0
      /\ recorders' = {} /\ memory' = {} /\ kept' = KeptDefault
      /\ reading' = NoReading /\ pruned' = {} /\ prunedAudit' = {}
      /\ UNCHANGED <<published, replays, begun, captured, span, disk, aged>>
      /\ UNCHANGED <<deleted, handedOut>>
  BY DEF Restart, RecFault
<1>2. torn' \subseteq torn \cup recorders BY DEF Restart
<1>3. RouterOK'
  <2>1. published \in 0..MaxReadings /\ recFaults' \in 0..MaxRecFaults
    BY <1>1, RecordingsParts DEF RouterOK
  <2>2. history' \in Seq(EventCopies) /\ Len(history') <= HistorySize BY <1>1
  <2>3. ConsoleShowsLive' BY <1>1, <2>1 DEF ConsoleShowsLive
  <2> QED BY <1>1, <2>1, <2>2, <2>3, RecordingsParts DEF RouterOK
<1>4. ContentOK' BY <1>1, ContentStays
<1>5. StoreOK'
  <2>1. Begun' /\ Started' = Started /\ AgedFirst'
    BY <1>1, RecordingsParts DEF StoreOK, Begun, Started, AgedFirst, Newer
  <2> QED BY <1>1, <1>2, <2>1, RecordingsParts DEF StoreOK
<1>6. GoneOK' BY <1>1, RecordingsParts DEF GoneOK, Started
<1> QED BY <1>3, <1>4, <1>5, <1>6 DEF RecordingsInv

LEMMA RecordingsStep ==
  RecordingsInv /\ WithinWindow /\ [RecordingsNext]_recordingVars => RecordingsInv'
<1> SUFFICES ASSUME RecordingsInv, WithinWindow, [RecordingsNext]_recordingVars
             PROVE  RecordingsInv'
  OBVIOUS
<1>1. CASE Report BY <1>1, ReportInv
<1>2. CASE ReportAgain BY <1>2, ReportAgainInv
<1>3. CASE SetRetention BY <1>3, SetRetentionInv
<1>4. CASE ReadSensor BY <1>4, ReadSensorInv
<1>5. CASE TimePasses BY <1>5, TimePassesInv
<1>6. CASE Restart BY <1>6, RecordingsRestartInv
<1>7. ASSUME NEW r \in LessonRecs,
             \/ StartRecording(r) \/ StopRecording(r) \/ StopUnsaved(r)
             \/ ReplayRecording(r) \/ ExportRecording(r) \/ DeleteRecording(r)
      PROVE  RecordingsInv'
  BY <1>7, StartRecordingInv, StopRecordingInv, StopUnsavedInv, ReplayInv, ExportRecordingInv,
     DeleteRecordingInv
<1>8. CASE UNCHANGED recordingVars
  <2>1. UNCHANGED <<routerVars, contentVars, storeVars, ghostVars, recFaults>>
    BY <1>8 DEF recordingVars
  <2> QED BY <2>1, PartsStay DEF RecordingsInv, routerVars, contentVars, ghostVars
<1> QED BY <1>1, <1>2, <1>3, <1>4, <1>5, <1>6, <1>7, <1>8 DEF RecordingsNext

(* Whatever writes the store leaves it as the policy allows, and nothing goes *)
(* while something older stays: save prunes twice, and a new policy once.    *)
Enforced ==
  /\ Cardinality(disk') <= kept' /\ disk' \cap aged = {}
  /\ \A r \in disk', s \in disk \ disk' : ~Newer(s, r)

LEMMA StopEnforces ==
  ASSUME RecordingsInv, NEW r \in LessonRecs, StopRecording(r)
  PROVE  Enforced
<1> DEFINE F == disk \cup {r}
           S == Retained(F, kept)
           L == Retained(S, kept)
<1>1. r \in recorders /\ disk' = L /\ kept' = kept /\ Saved(r) = S
  BY DEF StopRecording, Removes, Saved
<1>2. Begun /\ AgedFirst /\ kept \in Nat /\ F \in SUBSET Started
  BY <1>1, RecordingsParts, RecordingsAssumption DEF StoreOK
<1>3. S \in SUBSET F BY DEF Retained
<1>4. S \in SUBSET Started BY <1>2, <1>3
<1>5. ASSUME NEW p \in L, NEW s \in F \ L PROVE ~Newer(s, p)
  <2> HIDE DEF F, S
  <2>1. CASE s \in S BY <1>2, <1>4, <1>5, <2>1, OldestGoFirst
  <2>2. CASE s \notin S
    <3>1. L \subseteq S BY DEF Retained
    <3>2. p \in S BY <3>1
    <3>3. S = Retained(F, kept) BY DEF S
    <3> HIDE DEF L
    <3> QED BY <1>2, <1>5, <2>2, <3>2, <3>3, OldestGoFirst
  <2> QED BY <2>1, <2>2
<1>6. Cardinality(L) <= kept /\ L \cap aged = {}
  <2> HIDE DEF S
  <2> QED BY <1>2, <1>4, RetainedWithin
<1> HIDE DEF L
<1> QED BY <1>1, <1>5, <1>6 DEF Enforced

LEMMA PolicyEnforces ==
  ASSUME RecordingsInv, SetRetention
  PROVE  Enforced
<1>1. PICK k \in KeptChoices : kept' = k /\ disk' = Retained(disk, k)
  BY DEF SetRetention, Removes
<1>2. Begun /\ AgedFirst /\ k \in Nat /\ disk \in SUBSET Started
  BY RecordingsParts, RecordingsAssumption DEF StoreOK
<1>3. Cardinality(disk') <= kept' /\ disk' \cap aged = {} BY <1>1, <1>2, RetainedWithin
<1>4. \A r \in disk', s \in disk \ disk' : ~Newer(s, r) BY <1>1, <1>2, OldestGoFirst
<1> QED BY <1>3, <1>4 DEF Enforced

(* Every other step writes no file; only a restart resets the policy.        *)
LEMMA OthersWriteNothing ==
  ASSUME RecordingsInv
  PROVE  /\ Report \/ ReportAgain \/ ReadSensor \/ TimePasses \/ Restart
              => disk' \subseteq disk /\ (kept' = kept \/ recFaults' # recFaults)
         /\ \A r \in LessonRecs :
              \/ StartRecording(r) \/ StopUnsaved(r) \/ ReplayRecording(r)
              \/ ExportRecording(r) \/ DeleteRecording(r)
              => disk' \subseteq disk /\ kept' = kept
<1>1. Report => UNCHANGED <<disk, kept>> BY DEF Report, storeVars
<1>2. ReportAgain => UNCHANGED <<disk, kept>> BY DEF ReportAgain, storeVars
<1>3. ReadSensor => UNCHANGED <<disk, kept>> BY DEF ReadSensor, storeVars
<1>4. TimePasses => UNCHANGED <<disk, kept>> BY DEF TimePasses
<1>5. Restart => disk' = disk /\ recFaults' # recFaults
  BY RecordingsParts DEF Restart, RecFault, RouterOK
<1>6. ASSUME NEW r \in LessonRecs
      PROVE  /\ StartRecording(r) => UNCHANGED <<disk, kept>>
             /\ StopUnsaved(r) => UNCHANGED <<disk, kept>>
             /\ ReplayRecording(r) => UNCHANGED <<disk, kept>>
             /\ ExportRecording(r) => UNCHANGED <<disk, kept>>
             /\ DeleteRecording(r) => disk' \subseteq disk /\ kept' = kept
  BY DEF StartRecording, StopUnsaved, ReplayRecording, ExportRecording, DeleteRecording, storeVars
<1> QED BY <1>1, <1>2, <1>3, <1>4, <1>5, <1>6

(* A recording holds the lesson it was made in, and the device card shows what *)
(* is live, through events handed over again, replays, failed writes, restarts *)
(* and new policies.  Every write of the store, by a recording that is saved or *)
(* an instructor who changes the policy, leaves no more than the policy allows, *)
(* nothing too old, and removes nothing while an older one stays (retention.py, *)
(* "enforced on write").  It is so as long as no life of the runtime outgrows  *)
(* the dedupe window: events.py remembers the newest identities only, and      *)
(* publishes an event it has forgotten anew.                                   *)
THEOREM RecordingsAreKeptHolds ==
  RecordingsSpec /\ []WithinWindow => RecordingsAreKept
<1> DEFINE Written == disk' \ disk # {} \/ (kept' # kept /\ recFaults' = recFaults) => Enforced
<1>1. RecordingsInit => RecordingsInv BY RecordingsInitInv
<1>2. RecordingsInv /\ WithinWindow /\ [RecordingsNext]_recordingVars => RecordingsInv'
  BY RecordingsStep
<1>3. RecordingsInv => RecordingsTypeOK /\ RecordingIsTheLesson /\ ConsoleShowsLive
  BY RecordingsInvImplies
<1>4. RecordingsInv /\ [RecordingsNext]_recordingVars
        => [ disk' \ disk # {} \/ (kept' # kept /\ recFaults' = recFaults) =>
               /\ Cardinality(disk') <= kept' /\ disk' \cap aged = {}
               /\ \A r \in disk', s \in disk \ disk' : ~Newer(s, r) ]_recordingVars
  <2> SUFFICES ASSUME RecordingsInv, RecordingsNext PROVE Written
    BY DEF Enforced
  <2>1. CASE SetRetention BY <2>1, PolicyEnforces
  <2>2. ASSUME NEW r \in LessonRecs, StopRecording(r) PROVE Written BY <2>2, StopEnforces
  <2>3. CASE Report \/ ReportAgain \/ ReadSensor \/ TimePasses \/ Restart
    BY <2>3, OthersWriteNothing
  <2>4. ASSUME NEW r \in LessonRecs,
               \/ StartRecording(r) \/ StopUnsaved(r) \/ ReplayRecording(r)
               \/ ExportRecording(r) \/ DeleteRecording(r)
        PROVE  Written
    BY <2>4, OthersWriteNothing
  <2> QED BY <2>1, <2>2, <2>3, <2>4 DEF RecordingsNext
<1> QED
  BY <1>1, <1>2, <1>3, <1>4, PTL DEF RecordingsSpec, WritesEnforceRetention, RecordingsAreKept
=============================================================================
