--------------------------- MODULE LessonRecordings ---------------------------
(***************************************************************************)
(* Device events and what is kept of them: the event router with its       *)
(* dedupe window and history (events.py), the device status the console    *)
(* shows (status.py), the recorders and replays (recorder.py, runtime.py), *)
(* the recordings on disk and their retention (retention.py), and the      *)
(* student program's sensor reads (student_bridge.py).                     *)
(*                                                                         *)
(* Live events of a device are numbered; a replayed one keeps its number   *)
(* and is marked old.  Recordings are ordered by the time they started.    *)
(***************************************************************************)
EXTENDS Naturals, Sequences, FiniteSets, SequencesExt

CONSTANTS LessonRecs,      \* recording ids
          KeptDefault,     \* max_recordings a runtime starts with
          KeptChoices,     \* what an instructor may set it to
          DedupeWindow,    \* events whose identity the router remembers
          HistorySize,     \* events the router remembers
          MaxReadings,     \* bound: events a device reports
          MaxReplays,      \* bound: replays
          MaxRecFaults     \* bound: retries, failed writes, restarts

ASSUME RecordingsAssumption ==
  /\ KeptDefault \in Nat \ {0} /\ KeptChoices \subseteq Nat \ {0}
  /\ DedupeWindow \in Nat \ {0} /\ HistorySize \in Nat \ {0}
  /\ MaxReadings \in Nat /\ MaxReplays \in Nat /\ MaxRecFaults \in Nat

VARIABLES published,   \* live events published
          lifeStart,   \* ... when this runtime was started
          history,     \* the router's history
          deviceStatus,\* the last reading the device card shows, or 0
          reading,     \* what the student program last read, or NoReading
          begun,       \* the recordings in the order they were started
          recorders,   \* _recorders: those that run
          captured,    \* what each recording holds
          span,        \* history: the live events published while it ran
          memory,      \* _recordings
          disk, torn,  \* files of the store, and those a crash cut short
          kept,        \* max_recordings
          aged,        \* recordings older than retention_days
          deleted,     \* history: recordings whose deletion was confirmed
          handedOut,   \* history: recordings replayed or exported after that
          pruned,      \* history: recordings retention removed in this life
          prunedAudit, \* RETENTION_PRUNED entries of this life
          replays, recFaults

routerVars  == <<published, lifeStart, history, deviceStatus, replays>>
contentVars == <<begun, recorders, captured, span>>
storeVars   == <<memory, disk, torn, kept, aged>>
ghostVars   == <<reading, deleted, handedOut, pruned, prunedAudit>>
recordingVars == <<routerVars, contentVars, storeVars, ghostVars, recFaults>>

NoReading == [n |-> 0, old |-> FALSE]

RecordingsInit ==
  /\ published = 0 /\ lifeStart = 0 /\ history = <<>> /\ deviceStatus = 0 /\ replays = 0
  /\ begun = <<>> /\ recorders = {}
  /\ captured = [r \in LessonRecs |-> <<>>] /\ span = [r \in LessonRecs |-> <<0, 0>>]
  /\ memory = {} /\ disk = {} /\ torn = {} /\ kept = KeptDefault /\ aged = {}
  /\ reading = NoReading /\ deleted = {} /\ handedOut = {} /\ pruned = {} /\ prunedAudit = {}
  /\ recFaults = 0

RecFault == recFaults < MaxRecFaults /\ recFaults' = recFaults + 1

(***************************************************************************)
(* The router and its subscribers: the device card and every recorder.     *)
(***************************************************************************)
\* the history as it would be without its bound
Everything(s) == s

\* the newest HistorySize of a sequence
Newest(s) == SubSeq(s, IF Len(s) > HistorySize THEN Len(s) - HistorySize + 1 ELSE 1, Len(s))

\* the places of the live events
LivePlaces(es) == {i \in DOMAIN es : ~es[i].old}

\* the device card as it would be if a replay repainted it
ObserveAll(es) == IF es = <<>> THEN deviceStatus ELSE Last(es).n

\* DeviceStatusProjection.observe
Observe(es) ==
  LET live == LivePlaces(es) IN IF live = {} THEN deviceStatus ELSE es[Max(live)].n

\* publish: what is left of the events goes to the history and to every subscriber
PublishEvents(es) ==
  /\ history' = Newest(history \o es)
  /\ deviceStatus' = Observe(es)
  /\ captured' = [r \in LessonRecs |-> IF r \in recorders THEN captured[r] \o es ELSE captured[r]]

\* the dedupe window as it would be if nothing were remembered
NeverSeen(n) == FALSE

Seen(n) == n > published - DedupeWindow

Live(n) == <<[n |-> n, old |-> FALSE]>>

Report ==
  /\ published < MaxReadings
  /\ published' = published + 1
  /\ span' = [r \in LessonRecs |-> IF r \in recorders THEN <<span[r][1], published + 1>> ELSE span[r]]
  /\ PublishEvents(Live(published + 1))
  /\ UNCHANGED <<lifeStart, replays, begun, recorders, storeVars, ghostVars, recFaults>>

\* an adapter hands over an event it has handed over before
ReportAgain ==
  \E n \in (lifeStart + 1)..published :
    /\ RecFault
    /\ PublishEvents(IF Seen(n) THEN <<>> ELSE Live(n))
    /\ UNCHANGED <<published, lifeStart, replays, begun, recorders, span, storeVars, ghostVars>>

(***************************************************************************)
(* Recordings.                                                             *)
(***************************************************************************)
\* a recorder subscribes to the router
Begins(r) == begun' = Append(begun, r) /\ recorders' = recorders \cup {r}

StartRecording(r) ==
  /\ r \notin ToSet(begun)
  /\ Begins(r)
  /\ span' = [span EXCEPT ![r] = <<published, published>>]
  /\ UNCHANGED <<routerVars, captured, storeVars, ghostVars, recFaults>>

Newer(r, s) == \E i, j \in DOMAIN begun : i > j /\ begun[i] = r /\ begun[j] = s

\* prune as it would be if the list were not turned round after sorting
RetainedOldest(files, limit) ==
  LET fresh == files \ aged
  IN {r \in fresh : Cardinality({s \in fresh : Newer(r, s)}) < limit}

\* prune: what is too old goes, and then all but the newest
Retained(files, limit) ==
  LET fresh == files \ aged
  IN {r \in fresh : Cardinality({s \in fresh : Newer(s, r)}) < limit}

Removes(files, left) ==
  /\ disk' = left
  /\ pruned' = pruned \cup (files \ left)

\* the audit log only grows
Audited(rs) == prunedAudit' = prunedAudit \cup rs

Finishes(r) == recorders' = recorders \ {r} /\ memory' = memory \cup {r}

Saved(r) == Retained(disk \cup {r}, kept)

\* stop_recording: save prunes as it writes, and the prune that is audited
\* comes after it
StopRecording(r) ==
  /\ r \in recorders
  /\ Finishes(r)
  /\ Removes(disk \cup {r}, Retained(Saved(r), kept))
  /\ Audited(Saved(r) \ Retained(Saved(r), kept))
  /\ UNCHANGED <<routerVars, begun, captured, span, torn, kept, aged, reading, deleted, handedOut,
                 recFaults>>

\* the write fails: the recording stays in memory
StopUnsaved(r) ==
  /\ r \in recorders /\ RecFault
  /\ Finishes(r)
  /\ UNCHANGED <<routerVars, begun, captured, span, disk, torn, kept, aged, ghostVars>>

Available == memory \cup disk

HandsOut(r) == handedOut' = handedOut \cup ({r} \cap deleted)

Old(es) == [i \in DOMAIN es |-> [es[i] EXCEPT !.old = TRUE]]

ReplayRecording(r) ==
  /\ r \in Available /\ replays < MaxReplays
  /\ replays' = replays + 1
  /\ PublishEvents(Old(captured[r]))
  /\ HandsOut(r)
  /\ UNCHANGED <<published, lifeStart, begun, recorders, span, storeVars,
                 reading, deleted, pruned, prunedAudit, recFaults>>

ExportRecording(r) ==
  /\ r \in Available
  /\ HandsOut(r)
  /\ UNCHANGED <<routerVars, contentVars, storeVars, reading, deleted, pruned, prunedAudit,
                 recFaults>>

\* delete_recording removes the file, and answers whether there was one
DeleteRecording(r) ==
  /\ disk' = disk \ {r} /\ torn' = torn \ {r}
  /\ deleted' = deleted \cup ({r} \cap (disk \cup torn))
  /\ UNCHANGED <<routerVars, contentVars, memory, kept, aged, reading, handedOut, pruned,
                 prunedAudit, recFaults>>

SetRetention ==
  \E k \in KeptChoices \ {kept} :
    /\ kept' = k
    /\ Removes(disk, Retained(disk, k))
    /\ UNCHANGED <<routerVars, contentVars, memory, torn, aged, reading, deleted, handedOut,
                   prunedAudit, recFaults>>

\* read_sensor: the newest event of the device the router remembers
ReadSensor ==
  /\ reading' = IF history = <<>> THEN NoReading ELSE Last(history)
  /\ UNCHANGED <<routerVars, contentVars, storeVars, deleted, handedOut, pruned, prunedAudit,
                 recFaults>>

\* retention_days go by for the oldest recording that is not too old yet
TimePasses ==
  \E r \in ToSet(begun) \ (recorders \cup aged) :
    /\ \A s \in ToSet(begun) : Newer(r, s) => s \in aged
    /\ aged' = aged \cup {r}
    /\ UNCHANGED <<routerVars, contentVars, memory, disk, torn, kept, ghostVars, recFaults>>

\* only the files survive, and a file being written is cut short
Restart ==
  /\ RecFault
  /\ \E cut \in {{}} \cup {{r} : r \in recorders} : torn' = torn \cup cut
  /\ lifeStart' = published /\ history' = <<>> /\ deviceStatus' = 0
  /\ recorders' = {} /\ memory' = {} /\ kept' = KeptDefault
  /\ reading' = NoReading /\ pruned' = {} /\ prunedAudit' = {}
  /\ UNCHANGED <<published, replays, begun, captured, span, disk, aged, deleted, handedOut>>

RecordingsNext ==
  \/ Report \/ ReportAgain \/ SetRetention \/ ReadSensor \/ TimePasses \/ Restart
  \/ \E r \in LessonRecs :
       \/ StartRecording(r) \/ StopRecording(r) \/ StopUnsaved(r)
       \/ ReplayRecording(r) \/ ExportRecording(r) \/ DeleteRecording(r)

RecordingsSpec == RecordingsInit /\ [][RecordingsNext]_recordingVars

(***************************************************************************)
(* Properties.                                                             *)
(***************************************************************************)
EventCopies == [n : 1..MaxReadings, old : BOOLEAN]

\* The state holds values of its types, what runs is neither in memory nor on
\* disk, and the history is never longer than its bound.
RecordingsTypeOK ==
  /\ published \in 0..MaxReadings /\ lifeStart \in 0..published
  /\ history \in Seq(EventCopies) /\ Len(history) <= HistorySize
  /\ deviceStatus \in 0..published
  /\ reading \in EventCopies \cup {NoReading}
  /\ begun \in Seq(LessonRecs) /\ IsInjective(begun)
  /\ recorders \subseteq ToSet(begun)
  /\ recorders \cap (memory \cup disk \cup torn) = {}
  /\ \A r \in LessonRecs : captured[r] \in Seq(EventCopies) /\ span[r] \in (0..published) \X (0..published)
  /\ memory \cup disk \cup torn \cup aged \subseteq ToSet(begun)
  /\ kept \in KeptChoices \cup {KeptDefault}
  /\ handedOut \subseteq deleted /\ deleted \subseteq ToSet(begun)
  /\ prunedAudit \subseteq pruned /\ pruned \subseteq ToSet(begun)
  /\ replays \in 0..MaxReplays /\ recFaults \in 0..MaxRecFaults

\* A recording holds every live event published while it ran, once and in
\* order, though adapters hand events over again and other recordings are
\* replayed meanwhile (FR-059, FR-064).
RecordingIsTheLesson ==
  \A r \in LessonRecs :
    LET live == LivePlaces(captured[r]) IN
    /\ {captured[r][i].n : i \in live} = (span[r][1] + 1)..span[r][2]
    /\ \A i, j \in live : i < j => captured[r][i].n < captured[r][j].n

\* The device card shows the newest reading the device has reported to this
\* runtime, whatever is replayed ("must not repaint the console", status.py).
ConsoleShowsLive == deviceStatus = IF published > lifeStart THEN published ELSE 0

\* Whenever the store is written, what is left obeys the retention policy, and
\* no recording goes while an older one stays (FR-084, "enforced on write").
WritesEnforceRetention ==
  [][ disk' \ disk # {} \/ (kept' # kept /\ recFaults' = recFaults) =>
        /\ Cardinality(disk') <= kept' /\ disk' \cap aged = {}
        /\ \A r \in disk', s \in disk \ disk' : ~Newer(s, r) ]_recordingVars

\* What a student program reads from a sensor is what the device has reported,
\* never what a recording replays (recorder.py:119, "no consumer mistakes it
\* for live").
SensorReadsAreLive == ~reading.old

\* A recording that has been deleted is not replayed or exported any more
\* (api.py:867, "Deletion is a thing a person can actually do").
DeletedStaysDeleted == handedOut = {}

\* What retention removes is recorded in the audit log (FR-083).
PrunedIsAudited == pruned = prunedAudit

\* A recording is the lesson it was made in, replaying it leaves the console
\* alone, and what is kept obeys the policy.
RecordingsAreKept ==
  [](RecordingsTypeOK /\ RecordingIsTheLesson /\ ConsoleShowsLive) /\ WritesEnforceRetention
===============================================================================
