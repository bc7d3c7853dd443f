------------------------------ MODULE ProjectFiles ------------------------------
(***************************************************************************)
(* A student's project on disk (projects.py) and the routes that read,     *)
(* save and delete it (api.py).  No request runs between the steps of      *)
(* another, but the machine may be switched off between any two of them,   *)
(* and each step that writes may fail.                                     *)
(*                                                                         *)
(* Versions of the document are numbered in the order they are saved.      *)
(***************************************************************************)
EXTENDS Naturals, FiniteSets

CONSTANTS Students,          \* who is signed in; none is an instructor
          MaxVersions,       \* bound: versions saved
          MaxProjectFaults   \* bound: failed writes and power cuts

ASSUME ProjectAssumption ==
  Students # {} /\ MaxVersions \in Nat /\ MaxProjectFaults \in Nat

VARIABLES document,     \* <id>.json: a version, 0 when there is none
          backup,       \* <id>.bak.json, Half when it was cut short
          sidecar,      \* <id>.owner.json: the owner, or Nobody
          saving,       \* the request that saves: its step, student and version
          deleting,     \* the files the request that deletes has left to remove
          acknowledged, \* history: the last version whose saving was answered
          versions, projectFaults

projectVars == <<document, backup, sidecar, saving, deleting, acknowledged, versions,
                 projectFaults>>
fileVars    == <<document, backup, sidecar>>

Nobody == "nobody"
Half   == MaxVersions + 1
NotSaving == [step |-> "none", by |-> Nobody, version |-> 0]

ProjectInit ==
  /\ document = 0 /\ backup = 0 /\ sidecar = Nobody
  /\ saving = NotSaving /\ deleting = {} /\ acknowledged = 0
  /\ versions = 0 /\ projectFaults = 0

ProjectFault == projectFaults < MaxProjectFaults /\ projectFaults' = projectFaults + 1

\* a request as it would be let in if a deletion did not keep others out
NoneSaving == saving = NotSaving

\* handlers that await nothing: one request at a time
Quiet == saving = NotSaving /\ deleting = {}

\* owner_of and require_session_owner: an unowned project is anybody's
May(s) == sidecar \in {Nobody, s}

SaveAsked(s) ==
  /\ Quiet /\ May(s) /\ versions < MaxVersions
  /\ versions' = versions + 1
  /\ saving' = [step |-> "backup", by |-> s, version |-> versions + 1]
  /\ UNCHANGED <<fileVars, deleting, acknowledged, projectFaults>>

Becomes(step) == saving' = [saving EXCEPT !.step = step]

BackupWritten ==
  /\ saving.step = "backup"
  /\ backup' = IF document = 0 THEN backup ELSE document
  /\ Becomes("write")
  /\ UNCHANGED <<document, sidecar, deleting, acknowledged, versions, projectFaults>>

\* the temporary file as it would be if it were the target itself
CutShort == {document, Half}

\* a write that does not end: the target is the old document, or the new one
Replaced == {document, saving.version}

DocumentWritten ==
  /\ saving.step = "write"
  /\ document' = saving.version
  /\ Becomes("owner")
  /\ UNCHANGED <<backup, sidecar, deleting, acknowledged, versions, projectFaults>>

Claims == IF sidecar = Nobody THEN saving.by ELSE sidecar

SaveAnswered ==
  /\ saving.step = "owner"
  /\ sidecar' = Claims
  /\ acknowledged' = saving.version
  /\ saving' = NotSaving
  /\ UNCHANGED <<document, backup, deleting, versions, projectFaults>>

\* what a step that was not finished may have left behind
LeftBehind ==
  /\ backup' \in IF saving.step = "backup" /\ document # 0 THEN {backup, Half} ELSE {backup}
  /\ document' \in IF saving.step = "write" THEN Replaced ELSE {document}
  /\ UNCHANGED sidecar

\* a full disk: the request is answered with an error (507), and what is there stays
WriteFails ==
  /\ saving # NotSaving /\ ProjectFault
  /\ backup' \in IF saving.step = "backup" /\ document # 0 THEN {backup, Half} ELSE {backup}
  /\ saving' = NotSaving
  /\ UNCHANGED <<document, sidecar, deleting, acknowledged, versions>>

PowerCut ==
  /\ ~Quiet /\ ProjectFault
  /\ LeftBehind
  /\ saving' = NotSaving /\ deleting' = {}
  /\ UNCHANGED <<acknowledged, versions>>

DeleteAsked(s) ==
  /\ Quiet /\ May(s)
  /\ deleting' = {"document", "backup", "owner"}
  /\ acknowledged' = 0
  /\ UNCHANGED <<fileVars, saving, versions, projectFaults>>

\* the files as they would be removed if the sidecar went first
OwnerFirst(file) ==
  file = IF "owner" \in deleting THEN "owner"
         ELSE IF "document" \in deleting THEN "document" ELSE "backup"

\* delete: the document, its backup, and at last who owned it
NextRemoved(file) ==
  file = IF "document" \in deleting THEN "document"
         ELSE IF "backup" \in deleting THEN "backup" ELSE "owner"

FileRemoved ==
  \E file \in deleting :
    /\ NextRemoved(file)
    /\ deleting' = deleting \ {file}
    /\ document' = IF file = "document" THEN 0 ELSE document
    /\ backup' = IF file = "backup" THEN 0 ELSE backup
    /\ sidecar' = IF file = "owner" THEN Nobody ELSE sidecar
    /\ UNCHANGED <<saving, acknowledged, versions, projectFaults>>

ProjectNext ==
  \/ \E s \in Students : SaveAsked(s) \/ DeleteAsked(s)
  \/ BackupWritten \/ DocumentWritten \/ SaveAnswered \/ FileRemoved
  \/ WriteFails \/ PowerCut

ProjectSpec == ProjectInit /\ [][ProjectNext]_projectVars

(***************************************************************************)
(* Properties.                                                             *)
(***************************************************************************)
\* The files hold versions that were made, and a version has one place: no
\* request is in two steps at once.
ProjectTypeOK ==
  /\ document \in 0..Half /\ backup \in 0..Half
  /\ sidecar \in Students \cup {Nobody}
  /\ saving \in [step : {"none", "backup", "write", "owner"}, by : Students \cup {Nobody},
                 version : 0..versions]
  /\ deleting \subseteq {"document", "backup", "owner"}
  /\ saving = NotSaving \/ deleting = {}
  /\ acknowledged \in 0..versions /\ versions \in 0..MaxVersions
  /\ projectFaults \in 0..MaxProjectFaults

\* Whatever fails and whenever the power goes, the document is one that was
\* saved, whole, and not older than the last the student was told is safe
\* (projects.py: "either the old project or the new one and never half of
\* either").
WorkIsSafe ==
  /\ document # Half
  /\ acknowledged # 0 => document >= acknowledged

\* While a project that has an owner is stored, it stays that owner's: a
\* deletion cut short does not leave the document to whoever comes next.
OwnerStays ==
  [][document # 0 /\ document' # 0 /\ sidecar # Nobody => sidecar' = sidecar]_projectVars

\* A stored project: the student's work is safe and stays the student's.
ProjectsAreKept == [](ProjectTypeOK /\ WorkIsSafe) /\ OwnerStays
================================================================================
