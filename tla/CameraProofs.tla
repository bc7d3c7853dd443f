----------------------------- MODULE CameraProofs -----------------------------
(***************************************************************************)
(* What the camera services promise for every set of cameras that share    *)
(* the phone, and what the picture folder promises for every set of photos *)
(* and of names.                                                           *)
(***************************************************************************)
EXTENDS CameraFolder, CameraImports, TLAPS

\* The steps of an import at which it automates the phone.
OnPhoneSteps == {"checking", "reading", "looking", "covering", "waking", "working", "stayOn",
                 "overlay"}

(* The phone's lock is held by the import that automates it, and by no other. *)
LockIsHeld == \A c \in Cameras : import[c] \in OnPhoneSteps <=> phoneLock = c

(* Until it changes the settings an import finds the user's.  What it has    *)
(* read of them is the user's; it leaves an overlay alone that it did not    *)
(* see; and it puts the one setting back before the other.                   *)
Intact(c) == import[c] \in {"checking", "reading", "looking", "covering"} => settings = Users

Recalls(c) ==
    import[c] \in {"looking", "covering", "waking", "working", "stayOn", "overlay"}
      => restore[c].stayOn \in {"user", "unread"}

Spares(c) ==
    import[c] \in {"covering", "waking", "working", "stayOn", "overlay"}
      => restore[c].overlay = "on" \/ settings.overlay = "on"

UsersKept ==
    ~disturbed => \A c \in Cameras :
        /\ Intact(c) /\ Recalls(c) /\ Spares(c)
        /\ import[c] = "overlay" => settings.stayOn = "user"

(* An import that is over, but for putting things back, has its result.      *)
EndsWithResult ==
    \A c \in Cameras :
       import[c] \in {"stayOn", "overlay", "ended"} => conclusion[c] # "none"

(* A service that is busy with a probe has no import in its thread.          *)
ProbesAlone == \A c \in Cameras : serviceBusy[c] # "no" => import[c] = "none"

ImportInv == /\ ImportsAreSafe /\ LockIsHeld /\ UsersKept
             /\ EndsWithResult /\ ProbesAlone

-----------------------------------------------------------------------------
(* The imports that share a phone: the invariant is kept by each operation  *)
(* of a service and each step of an import's thread.                        *)
LEMMA ImportInit == CameraInit => ImportInv
<1> SUFFICES ASSUME CameraInit PROVE ImportInv
  OBVIOUS
<1> USE CameraAssumption DEF CameraInit
<1>1. CameraTypeOK
  <2>1. Users \in Settings /\ Users \in Remembered BY DEF Settings, Remembered, Users
  <2>2. restore \in [Cameras -> Remembered] /\ settings \in Settings BY <2>1
  <2>3. shown \in [Cameras -> Results \cup {"unavailable", "ready", "active", "deferredPhone"}]
    OBVIOUS
  <2>4. importCrashes \in 0..MaxImportCrashes OBVIOUS
  <2>5. phone \in {"ready", "low", "gone"} OBVIOUS
  <2>6. phoneLock \in Cameras \cup {NoCamera} /\ disturbed \in BOOLEAN OBVIOUS
  <2> HIDE DEF CameraInit
  <2>7. /\ import \in [Cameras -> Steps]
        /\ conclusion \in [Cameras -> Results \cup {"none", "deferredPhone"}]
        /\ serviceBusy \in [Cameras -> {"no", "poll", "request", "loop"}]
        /\ probed \in [Cameras -> {"ready", "low", "gone"}]
        /\ loop \in [Cameras -> {"asleep", "awaiting"}]
        /\ noted \in [Cameras -> BOOLEAN]
    BY DEF CameraInit, Steps
  <2> QED BY <2>2, <2>3, <2>4, <2>5, <2>6, <2>7 DEF CameraTypeOK
<1>2. SettingsGivenBack /\ ShownWhileImporting
  BY DEF SettingsGivenBack, ShownWhileImporting
<1>3. LockIsHeld /\ UsersKept /\ EndsWithResult /\ ProbesAlone
  BY DEF LockIsHeld, UsersKept, Intact, Recalls, Spares, EndsWithResult, ProbesAlone,
         OnPhoneSteps
<1> QED BY <1>1, <1>2, <1>3 DEF ImportInv, ImportsAreSafe

LEMMA ImportTypeStep == ImportInv /\ [CameraNext]_cameraVars => CameraTypeOK'
<1> SUFFICES ASSUME ImportInv, [CameraNext]_cameraVars PROVE CameraTypeOK'
  OBVIOUS
<1> USE CameraAssumption
    DEF ImportInv, ImportsAreSafe, CameraTypeOK, Steps, importVars, snapshotVars, loopVars
<1>1. CASE PhoneChanges
  BY <1>1 DEF PhoneChanges
<1>2. CASE ImportCrash
  BY <1>2 DEF ImportCrash, Remembered, Users
<1>3. ASSUME NEW c \in Cameras, PollBegins(c) PROVE CameraTypeOK'
  BY <1>3 DEF PollBegins
<1>4. ASSUME NEW c \in Cameras, ProbeEnds(c) PROVE CameraTypeOK'
  <2>1. Applied(shown[c], probed[c]) \in
           Results \cup {"unavailable", "ready", "active", "deferredPhone"}
    BY DEF Applied, Results
  <2> QED BY <1>4, <2>1 DEF ProbeEnds
<1>5. ASSUME NEW c \in Cameras, LoopSleepsOn(c) PROVE CameraTypeOK'
  BY <1>5 DEF LoopSleepsOn
<1>6. ASSUME NEW c \in Cameras, LoopGoesOn(c) PROVE CameraTypeOK'
  BY <1>6 DEF LoopGoesOn
<1>7. ASSUME NEW c \in Cameras, NEW by \in {"request", "loop"}, StartBegins(c, by)
      PROVE CameraTypeOK'
  BY <1>7 DEF StartBegins
<1>8. ASSUME NEW c \in Cameras, TakePhone(c) PROVE CameraTypeOK'
  BY <1>8 DEF TakePhone
<1>9. ASSUME NEW c \in Cameras, CheckFails(c) PROVE CameraTypeOK'
  BY <1>9 DEF CheckFails, Released, Results, Remembered, Users
<1>10. ASSUME NEW c \in Cameras, ReadStayOn(c) \/ ReadOverlay(c) PROVE CameraTypeOK'
  <2>1. restore[c] \in Remembered OBVIOUS
  <2>2. restore'[c] \in Remembered
    BY <1>10, <2>1 DEF ReadStayOn, ReadOverlay, Settings, Remembered
  <2>3. restore' = [restore EXCEPT ![c] = restore'[c]]
    BY <1>10 DEF ReadStayOn, ReadOverlay
  <2>4. restore' \in [Cameras -> Remembered] BY <2>2, <2>3
  <2> QED BY <1>10, <2>4 DEF ReadStayOn, ReadOverlay
<1>11. ASSUME NEW c \in Cameras, HideOverlay(c) \/ StayAwake(c) PROVE CameraTypeOK'
  BY <1>11 DEF HideOverlay, StayAwake, Settings
<1>12. ASSUME NEW c \in Cameras, NEW result \in Results, WorkEnds(c, result)
       PROVE CameraTypeOK'
  BY <1>12 DEF WorkEnds
<1>13. ASSUME NEW c \in Cameras, RestoreStayOn(c) PROVE CameraTypeOK'
  <2>1. restore[c] \in Remembered OBVIOUS
  <2>2. settings' \in Settings BY <1>13, <2>1 DEF RestoreStayOn, Settings, Remembered
  <2> QED BY <1>13, <2>2 DEF RestoreStayOn
<1>14. ASSUME NEW c \in Cameras, RestoreOverlay(c) PROVE CameraTypeOK'
  BY <1>14 DEF RestoreOverlay, Released, Settings, Remembered, Users
<1>15. ASSUME NEW c \in Cameras, RestoreTimesOut(c) PROVE CameraTypeOK'
  BY <1>15 DEF RestoreTimesOut, Released, Remembered, Users, Results
<1>19. ASSUME NEW c \in Cameras, CheckPasses(c) \/ PrepareTimesOut(c) PROVE CameraTypeOK'
  BY <1>19 DEF CheckPasses, PrepareTimesOut, Results
<1>16. ASSUME NEW c \in Cameras, ShowOutcome(c) PROVE CameraTypeOK'
  <2>1. conclusion[c] \in Results \cup {"deferredPhone"}
    BY <1>16 DEF ShowOutcome, EndsWithResult
  <2> QED BY <1>16, <2>1 DEF ShowOutcome, Concluded
<1>17. ASSUME NEW c \in Cameras, AfterImport(c) PROVE CameraTypeOK'
  BY <1>17 DEF AfterImport
<1>18. CASE UNCHANGED cameraVars
  BY <1>18 DEF cameraVars
<1> QED
  BY <1>1, <1>2, <1>3, <1>4, <1>5, <1>6, <1>7, <1>8, <1>9, <1>10, <1>11, <1>12, <1>13,
     <1>14, <1>15, <1>16, <1>17, <1>18, <1>19 DEF CameraNext, ImportGoesOn

LEMMA LockStep ==
    ImportInv /\ [CameraNext]_cameraVars => LockIsHeld' /\ EndsWithResult' /\ ProbesAlone'
<1> DEFINE Kept == LockIsHeld' /\ EndsWithResult' /\ ProbesAlone'
<1> SUFFICES ASSUME ImportInv, [CameraNext]_cameraVars PROVE Kept
  OBVIOUS
<1> USE CameraAssumption
    DEF ImportInv, ImportsAreSafe, CameraTypeOK, LockIsHeld, EndsWithResult, ProbesAlone,
        OnPhoneSteps, importVars, snapshotVars, loopVars
<1>1. CASE PhoneChanges \/ UNCHANGED cameraVars
  BY <1>1 DEF PhoneChanges, cameraVars
<1>2. CASE ImportCrash
  BY <1>2 DEF ImportCrash
<1>3. ASSUME NEW c \in Cameras,
             PollBegins(c) \/ ProbeEnds(c) \/ LoopSleepsOn(c) \/ LoopGoesOn(c)
      PROVE Kept
  BY <1>3 DEF PollBegins, ProbeEnds, LoopSleepsOn, LoopGoesOn
<1>4. ASSUME NEW c \in Cameras, NEW by \in {"request", "loop"}, StartBegins(c, by)
      PROVE Kept
  BY <1>4 DEF StartBegins
<1>5. ASSUME NEW c \in Cameras, TakePhone(c) PROVE Kept
  BY <1>5 DEF TakePhone, PhoneFree
<1>6. ASSUME NEW c \in Cameras, CheckFails(c) PROVE Kept
  BY <1>6 DEF CheckFails, Released
<1>7. ASSUME NEW c \in Cameras,
             CheckPasses(c) \/ ReadStayOn(c) \/ ReadOverlay(c) \/ HideOverlay(c) \/ StayAwake(c)
      PROVE Kept
  BY <1>7 DEF CheckPasses, ReadStayOn, ReadOverlay, HideOverlay, StayAwake
<1>8. ASSUME NEW c \in Cameras, NEW result \in Results, WorkEnds(c, result) PROVE Kept
  BY <1>8 DEF WorkEnds, Results
<1>9. ASSUME NEW c \in Cameras, RestoreStayOn(c) \/ PrepareTimesOut(c) PROVE Kept
  BY <1>9 DEF RestoreStayOn, PrepareTimesOut
<1>10. ASSUME NEW c \in Cameras, RestoreOverlay(c) \/ RestoreTimesOut(c) PROVE Kept
  BY <1>10 DEF RestoreOverlay, RestoreTimesOut, Released
<1>11. ASSUME NEW c \in Cameras, ShowOutcome(c) \/ AfterImport(c) PROVE Kept
  BY <1>11 DEF ShowOutcome, AfterImport
<1> QED
  BY <1>1, <1>2, <1>3, <1>4, <1>5, <1>6, <1>7, <1>8, <1>9, <1>10, <1>11
     DEF CameraNext, ImportGoesOn

LEMMA SettingsStep ==
    ImportInv /\ [CameraNext]_cameraVars => UsersKept' /\ SettingsGivenBack'
<1> DEFINE Kept == UsersKept' /\ SettingsGivenBack'
<1> SUFFICES ASSUME ImportInv, [CameraNext]_cameraVars PROVE Kept
  OBVIOUS
<1> USE CameraAssumption
    DEF ImportInv, ImportsAreSafe, CameraTypeOK, LockIsHeld, UsersKept, Intact, Recalls,
        Spares, SettingsGivenBack, OnPhoneSteps, importVars, snapshotVars, loopVars
<1>1. CASE PhoneChanges \/ UNCHANGED cameraVars
  BY <1>1 DEF PhoneChanges, cameraVars
<1>2. CASE ImportCrash
  BY <1>2 DEF ImportCrash
<1>3. ASSUME NEW c \in Cameras,
             PollBegins(c) \/ ProbeEnds(c) \/ LoopSleepsOn(c) \/ LoopGoesOn(c)
      PROVE Kept
  BY <1>3 DEF PollBegins, ProbeEnds, LoopSleepsOn, LoopGoesOn
<1>4. ASSUME NEW c \in Cameras, NEW by \in {"request", "loop"}, StartBegins(c, by)
      PROVE Kept
  BY <1>4 DEF StartBegins
<1>5. ASSUME NEW c \in Cameras, TakePhone(c) PROVE Kept
  BY <1>5 DEF TakePhone, PhoneFree
<1>6. ASSUME NEW c \in Cameras, CheckFails(c) PROVE Kept
  BY <1>6 DEF CheckFails, Released
<1>7. ASSUME NEW c \in Cameras,
             CheckPasses(c) \/ ReadStayOn(c) \/ ReadOverlay(c) \/ PrepareTimesOut(c)
      PROVE Kept
  BY <1>7 DEF CheckPasses, ReadStayOn, ReadOverlay, PrepareTimesOut, Users, Remembered
<1>8. ASSUME NEW c \in Cameras, NEW result \in Results, WorkEnds(c, result) PROVE Kept
  BY <1>8 DEF WorkEnds
<1>13. ASSUME NEW c \in Cameras, HideOverlay(c) \/ StayAwake(c) PROVE Kept
  BY <1>13 DEF HideOverlay, StayAwake, Settings, Remembered
<1>9. ASSUME NEW c \in Cameras, RestoreStayOn(c) PROVE Kept
  <2> SUFFICES ASSUME ~disturbed' PROVE Kept
    OBVIOUS
  <2>1. ~disturbed /\ phone # "gone" /\ restore[c].stayOn # "unread"
    BY <1>9, Zenon DEF RestoreStayOn
  <2>2. restore[c].stayOn = "user" BY <1>9, <2>1 DEF RestoreStayOn
  <2>3. settings' = [settings EXCEPT !.stayOn = "user"]
    BY <1>9, <2>1, <2>2 DEF RestoreStayOn
  <2>4. settings'.stayOn = "user" /\ settings'.overlay = settings.overlay
    BY <2>3 DEF Settings
  <2>5. phoneLock = c /\ \A d \in Cameras \ {c} : import[d] \notin OnPhoneSteps
    BY <1>9 DEF RestoreStayOn
  <2>6. UsersKept' BY <1>9, <2>1, <2>2, <2>4, <2>5 DEF RestoreStayOn
  <2> QED BY <1>9, <2>5, <2>6 DEF RestoreStayOn
<1>10. ASSUME NEW c \in Cameras, RestoreOverlay(c) PROVE Kept
  <2> SUFFICES ASSUME ~disturbed' PROVE Kept
    OBVIOUS
  <2>1. ~disturbed /\ (phone # "gone" \/ restore[c].overlay # "on")
    BY <1>10, Zenon DEF RestoreOverlay
  <2>2. settings.stayOn = "user" /\ (restore[c].overlay = "on" \/ settings.overlay = "on")
    BY <1>10, <2>1 DEF RestoreOverlay
  <2>3. settings' = settings \/ settings' = [settings EXCEPT !.overlay = "on"]
    BY <1>10 DEF RestoreOverlay
  <2>4. settings'.overlay = "on" /\ settings'.stayOn = "user" /\ settings' \in Settings
    BY <1>10, <2>1, <2>2, <2>3 DEF RestoreOverlay, Settings, Remembered
  <2>5. settings' = Users BY <2>4 DEF Settings, Users
  <2>6. \A d \in Cameras \ {c} : import[d] \notin OnPhoneSteps
    BY <1>10 DEF RestoreOverlay
  <2> QED BY <1>10, <2>5, <2>6 DEF RestoreOverlay
<1>11. ASSUME NEW c \in Cameras, RestoreTimesOut(c) PROVE Kept
  BY <1>11 DEF RestoreTimesOut, Released
<1>12. ASSUME NEW c \in Cameras, ShowOutcome(c) \/ AfterImport(c) PROVE Kept
  BY <1>12 DEF ShowOutcome, AfterImport
<1> QED
  BY <1>1, <1>2, <1>3, <1>4, <1>5, <1>6, <1>7, <1>8, <1>9, <1>10, <1>11, <1>12, <1>13
     DEF CameraNext, ImportGoesOn

LEMMA ShownStep == ImportInv /\ [CameraNext]_cameraVars => ShownWhileImporting'
<1> SUFFICES ASSUME ImportInv, [CameraNext]_cameraVars PROVE ShownWhileImporting'
  OBVIOUS
<1> USE CameraAssumption
    DEF ImportInv, ImportsAreSafe, CameraTypeOK, ProbesAlone, ShownWhileImporting,
        importVars, snapshotVars, loopVars
<1>1. CASE PhoneChanges \/ UNCHANGED cameraVars
  BY <1>1 DEF PhoneChanges, cameraVars
<1>2. CASE ImportCrash
  BY <1>2 DEF ImportCrash
<1>3. ASSUME NEW c \in Cameras, PollBegins(c) \/ LoopSleepsOn(c) \/ LoopGoesOn(c)
      PROVE ShownWhileImporting'
  BY <1>3 DEF PollBegins, LoopSleepsOn, LoopGoesOn
<1>4. ASSUME NEW c \in Cameras, NEW by \in {"request", "loop"}, StartBegins(c, by)
      PROVE ShownWhileImporting'
  BY <1>4 DEF StartBegins
<1>5. ASSUME NEW c \in Cameras, ProbeEnds(c) PROVE ShownWhileImporting'
  <2>1. import[c] = "none" /\ shown[c] # "active"
    BY <1>5 DEF ProbeEnds
  <2>2. Applied(shown[c], probed[c]) # "active"
    BY <2>1 DEF Applied, Results
  <2> QED BY <1>5, <2>1, <2>2 DEF ProbeEnds
<1>6. ASSUME NEW c \in Cameras, TakePhone(c) \/ CheckFails(c) PROVE ShownWhileImporting'
  BY <1>6 DEF TakePhone, CheckFails
<1>7. ASSUME NEW c \in Cameras,
             \/ CheckPasses(c) \/ ReadStayOn(c) \/ ReadOverlay(c)
             \/ HideOverlay(c) \/ StayAwake(c) \/ PrepareTimesOut(c)
      PROVE ShownWhileImporting'
  BY <1>7 DEF CheckPasses, ReadStayOn, ReadOverlay, HideOverlay, StayAwake, PrepareTimesOut
<1>8. ASSUME NEW c \in Cameras, NEW result \in Results, WorkEnds(c, result)
      PROVE ShownWhileImporting'
  BY <1>8 DEF WorkEnds
<1>9. ASSUME NEW c \in Cameras, RestoreStayOn(c) \/ RestoreOverlay(c) \/ RestoreTimesOut(c)
      PROVE ShownWhileImporting'
  BY <1>9 DEF RestoreStayOn, RestoreOverlay, RestoreTimesOut
<1>10. ASSUME NEW c \in Cameras, ShowOutcome(c) PROVE ShownWhileImporting'
  <2>1. Concluded(c) # "active" BY DEF Concluded, Results
  <2> QED BY <1>10, <2>1 DEF ShowOutcome
<1>11. ASSUME NEW c \in Cameras, AfterImport(c) PROVE ShownWhileImporting'
  BY <1>11 DEF AfterImport
<1> QED
  BY <1>1, <1>2, <1>3, <1>4, <1>5, <1>6, <1>7, <1>8, <1>9, <1>10, <1>11
     DEF CameraNext, ImportGoesOn

(* The phone every camera automates has its user's settings whenever no      *)
(* import holds it, unless a crash prevented it, a phone lost or silent      *)
(* while they are put back, or a phone lost when its stay-awake setting was  *)
(* read; and a snapshot shows an import at work exactly while one is.        *)
THEOREM ImportsSafe == CameraSpec => []ImportsAreSafe
<1>1. CameraInit => ImportInv BY ImportInit
<1>2. ImportInv /\ [CameraNext]_cameraVars => ImportInv'
  BY ImportTypeStep, LockStep, SettingsStep, ShownStep DEF ImportInv, ImportsAreSafe
<1>3. ImportInv => ImportsAreSafe BY DEF ImportInv
<1> QED BY <1>1, <1>2, <1>3, PTL DEF CameraSpec
-----------------------------------------------------------------------------
(* The picture folder.  A name with a hash holds that photo or nothing.      *)
HashesTell == \A p \in Photos : folder[p] \in {NoPhoto, p}

(* A writer that is about to fill a name chose one of its photo's two names, *)
(* and saw it free.                                                          *)
ChoseFree(job) ==
    /\ job.photo \in Photos
    /\ job.place \in {NameOf[job.photo], job.photo}
    /\ job.found = NoPhoto

WritersChoseFree ==
    /\ worker.step = "moving" => ChoseFree(worker)
    /\ puller.step = "pulling" => ChoseFree(puller)

(* The worker and the phone are busy with a photo.                           *)
BusyWithPhotos ==
    /\ worker.step # "idle" => worker.photo \in Photos
    /\ uploader.step # "idle" => uploader.photo \in Photos

(* What the worker is about to acknowledge is on this PC, or was overwritten *)
(* in the race already.                                                      *)
PublishedIsKept == worker.step = "published" => OnPc(worker.photo) \/ worker.photo \in raced

FolderInv == /\ UploadsAreSafe /\ HashesTell /\ WritersChoseFree /\ BusyWithPhotos
             /\ PublishedIsKept

(* The name chosen for a photo is one of its two, and holds it or nothing.   *)
LEMMA ChosenIsFree ==
    ASSUME FolderTypeOK, HashesTell, NEW p \in Photos
    PROVE  /\ Chosen(p) \in {NameOf[p], p} /\ Chosen(p) \in Place
           /\ folder[Chosen(p)] \in {NoPhoto, p}
<1> USE FolderAssumption
<1>1. NameOf[p] \in Names OBVIOUS
<1>2. CASE folder[NameOf[p]] \in {NoPhoto, p}
  BY <1>1, <1>2 DEF Chosen, Target, Place
<1>3. CASE folder[NameOf[p]] \notin {NoPhoto, p}
  BY <1>1, <1>3 DEF Chosen, Target, Place, HashesTell
<1> QED BY <1>2, <1>3

(* Filling a name that was chosen free keeps the folder's types, and a photo *)
(* that was on this PC is there still or is counted as lost to the race; the *)
(* photo filed is there.                                                     *)
LEMMA FillKeeps ==
    ASSUME FolderTypeOK, HashesTell, NEW job, ChoseFree(job), Fill(job)
    PROVE  /\ folder' \in [Place -> Photos \cup {NoPhoto}] /\ raced' \subseteq Photos
           /\ HashesTell'
           /\ \A p \in Photos : OnPc(p) \/ p \in raced => OnPc(p)' \/ p \in raced'
           /\ OnPc(job.photo)'
<1> USE FolderAssumption DEF FolderTypeOK, ChoseFree
<1>1. job.place \in Place /\ job.place \in Names \cup {job.photo}
  BY DEF Place
<1>2. folder' = [folder EXCEPT ![job.place] = job.photo]
  BY DEF Fill
<1>3. folder' \in [Place -> Photos \cup {NoPhoto}] /\ folder'[job.place] = job.photo
  BY <1>1, <1>2
<1>4. HashesTell'
  BY <1>1, <1>2, <1>3 DEF HashesTell, Place
<1>5. /\ raced' \subseteq Photos
      /\ raced \subseteq raced' \cup {job.photo}
      /\ folder[job.place] \in raced' \cup {NoPhoto, job.photo}
  BY <1>1 DEF Fill
<1>6. OnPc(job.photo)'
  BY <1>1, <1>3 DEF OnPc
<1>7. ASSUME NEW p \in Photos, OnPc(p) \/ p \in raced PROVE OnPc(p)' \/ p \in raced'
  <2>1. CASE p = job.photo BY <1>6, <2>1
  <2>2. CASE p # job.photo /\ p \in raced BY <1>5, <2>2
  <2>3. CASE p # job.photo /\ OnPc(p)
    <3>1. PICK place \in Place : folder[place] = p BY <2>3 DEF OnPc
    <3>2. CASE place = job.place BY <1>5, <2>3, <3>1, <3>2
    <3>3. CASE place # job.place BY <1>1, <1>2, <3>1, <3>3 DEF OnPc
    <3> QED BY <3>2, <3>3
  <2> QED BY <1>7, <2>1, <2>2, <2>3
<1> QED BY <1>3, <1>4, <1>5, <1>6, <1>7

LEMMA FolderInitInv == FolderInit => FolderInv
<1> SUFFICES ASSUME FolderInit PROVE FolderInv
  OBVIOUS
<1> USE FolderAssumption DEF FolderInit
<1>1. AtRest \in FolderJobs({"idle", "verified", "moving", "published"})
      /\ AtRest \in FolderJobs({"idle", "next", "pulling"})
  BY DEF AtRest, FolderJobs
<1>2. FolderTypeOK
  <2>1. receiptQueue \in Seq(Photos) /\ Len(receiptQueue) <= MaxReceipts OBVIOUS
  <2>2. uploader \in [step : {"idle", "sending", "filed", "waiting"},
                      photo : Photos \cup {NoPhoto}]
    BY DEF Resting
  <2> QED BY <1>1, <2>1, <2>2 DEF FolderTypeOK
<1>3. HashesTell BY DEF HashesTell, Place
<1> QED
  BY <1>2, <1>3 DEF FolderInv, UploadsAreSafe, OnlyRacesLoseUploads, WritersChoseFree,
     BusyWithPhotos, PublishedIsKept, AtRest, Resting

LEMMA FolderStep == FolderInv /\ [FolderNext]_folderVars => FolderInv'
<1> SUFFICES ASSUME FolderInv, [FolderNext]_folderVars PROVE FolderInv'
  OBVIOUS
<1> USE FolderAssumption
    DEF FolderInv, UploadsAreSafe, FolderTypeOK, OnlyRacesLoseUploads, WritersChoseFree,
        BusyWithPhotos, PublishedIsKept, ChoseFree, phoneVars, pullVars, receiverVars
<1>0. FolderTypeOK /\ HashesTell OBVIOUS
<1>1. ASSUME NEW p \in Photos, PhotoReachesPhone(p) PROVE FolderInv'
  BY <1>1 DEF PhotoReachesPhone, HashesTell, OnPc
<1>2. ASSUME NEW p \in Photos, BeginUpload(p) PROVE FolderInv'
  BY <1>2 DEF BeginUpload, FirstPart, HashesTell, OnPc
<1>3. CASE UploadPart
  BY <1>3 DEF UploadPart, HashesTell, OnPc
<1>4. CASE UploadReceipt
  <2>1. /\ receiptQueue' \in Seq(Photos) /\ Len(receiptQueue') <= MaxReceipts
        /\ receipts' \subseteq Photos
    BY <1>4 DEF UploadReceipt
  <2> QED BY <1>4, <2>1 DEF UploadReceipt, HashesTell, OnPc
<1>5. CASE EndUpload
  BY <1>5 DEF EndUpload, Resting, HashesTell, OnPc
<1>6. CASE TakeReceipt
  <2>1. /\ receiptQueue' \in Seq(Photos) /\ Len(receiptQueue') <= MaxReceipts
        /\ Head(receiptQueue) \in Photos
    BY <1>6 DEF TakeReceipt
  <2>2. /\ worker' \in FolderJobs({"idle", "verified"})
        /\ worker'.step # "idle" => worker'.photo \in Photos
    BY <1>6, <2>1 DEF TakeReceipt, AtRest, FolderJobs
  <2> QED BY <1>6, <2>1, <2>2 DEF TakeReceipt, FolderJobs, HashesTell, OnPc
<1>7. CASE ChoosePlace
  <2> DEFINE p == worker.photo
  <2>1. p \in Photos BY <1>7 DEF ChoosePlace
  <2>2. /\ Chosen(p) \in {NameOf[p], p} /\ Chosen(p) \in Place
        /\ folder[Chosen(p)] \in {NoPhoto, p}
    BY <2>1, ChosenIsFree
  <2>3. /\ worker' = [step |-> IF folder[Chosen(p)] = p THEN "published" ELSE "moving",
                      photo |-> p, place |-> Chosen(p), found |-> folder[Chosen(p)]]
        /\ part' \in [Photos -> {"short", "whole"}]
    BY <1>7, <2>1 DEF ChoosePlace
  <2>4. worker' \in FolderJobs({"moving", "published"})
    BY <2>1, <2>2, <2>3 DEF FolderJobs
  <2>5. worker'.step = "published" => OnPc(worker'.photo)
    BY <2>2, <2>3 DEF OnPc
  <2> QED BY <1>7, <2>1, <2>2, <2>3, <2>4, <2>5 DEF ChoosePlace, FolderJobs, HashesTell, OnPc
<1>8. CASE Publish
  <2>0. PICK job : job = worker OBVIOUS
  <2>1. ChoseFree(job) /\ Fill(job) BY <1>8, <2>0 DEF Publish, Fill
  <2> HIDE DEF ChoseFree
  <2>2. /\ folder' \in [Place -> Photos \cup {NoPhoto}] /\ raced' \subseteq Photos
        /\ HashesTell' /\ OnPc(job.photo)'
        /\ \A p \in Photos : OnPc(p) \/ p \in raced => OnPc(p)' \/ p \in raced'
    <3> HIDE DEF FolderInv, FolderTypeOK
    <3> QED BY <1>0, <2>1, FillKeeps
  <2>3. worker' \in FolderJobs({"published"}) /\ worker'.photo = job.photo
        /\ job.photo \in Photos /\ part' \in [Photos -> {"short", "whole"}]
    BY <1>8, <2>0, <2>1 DEF Publish, FolderJobs, ChoseFree
  <2>4. OnlyRacesLoseUploads' BY <1>8, <2>2 DEF Publish, OnPc
  <2>5. PublishedIsKept' BY <2>2, <2>3 DEF OnPc
  <2>6. FolderTypeOK' BY <1>8, <2>2, <2>3 DEF Publish, FolderJobs
  <2>7. WritersChoseFree' BY <1>8, <2>3 DEF Publish, FolderJobs, ChoseFree
  <2>8. BusyWithPhotos' BY <1>8, <2>3 DEF Publish
  <2> QED BY <2>2, <2>4, <2>5, <2>6, <2>7, <2>8
<1>9. CASE Acknowledge
  BY <1>9 DEF Acknowledge, AtRest, FolderJobs, HashesTell, OnPc
<1>10. CASE WorkerFails
  BY <1>10 DEF WorkerFails, AtRest, FolderJobs, HashesTell, OnPc
<1>11. CASE ListPhone
  BY <1>11 DEF ListPhone, OnThePhone, AtRest, FolderJobs, HashesTell, OnPc
<1>12. ASSUME NEW p \in Photos, PullNext(p) PROVE FolderInv'
  <2>1. /\ Chosen(p) \in {NameOf[p], p} /\ Chosen(p) \in Place
        /\ folder[Chosen(p)] \in {NoPhoto, p}
    BY ChosenIsFree
  <2>2. puller' \in FolderJobs({"next", "pulling"}) /\ listed' \subseteq Photos
    BY <1>12, <2>1 DEF PullNext, FolderJobs
  <2>3. puller'.step = "pulling" => ChoseFree(puller')
    BY <1>12, <2>1 DEF PullNext
  <2> QED BY <1>12, <2>2, <2>3 DEF PullNext, FolderJobs, HashesTell, OnPc
<1>13. CASE PullEnds
  <2>0. PICK job : job = puller OBVIOUS
  <2>1. ChoseFree(job) /\ Fill(job) BY <1>13, <2>0 DEF PullEnds, Fill
  <2> HIDE DEF ChoseFree
  <2>2. /\ folder' \in [Place -> Photos \cup {NoPhoto}] /\ raced' \subseteq Photos
        /\ HashesTell'
        /\ \A p \in Photos : OnPc(p) \/ p \in raced => OnPc(p)' \/ p \in raced'
    <3> HIDE DEF FolderInv, FolderTypeOK
    <3> QED BY <1>0, <2>1, FillKeeps
  <2>3. puller' \in FolderJobs({"next"})
    BY <1>13 DEF PullEnds, FolderJobs, AtRest
  <2>4. OnlyRacesLoseUploads' BY <1>13, <2>2 DEF PullEnds, OnPc
  <2>5. PublishedIsKept' BY <1>13, <2>2 DEF PullEnds, OnPc
  <2>6. FolderTypeOK' BY <1>13, <2>2, <2>3 DEF PullEnds, FolderJobs
  <2>7. WritersChoseFree' BY <1>13, <2>3 DEF PullEnds, FolderJobs, ChoseFree
  <2>8. BusyWithPhotos' BY <1>13 DEF PullEnds
  <2> QED BY <2>2, <2>4, <2>5, <2>6, <2>7, <2>8
<1>14. CASE StopPulling
  BY <1>14 DEF StopPulling, AtRest, FolderJobs, HashesTell, OnPc
<1>15. CASE FolderCrash
  <2>1. receiptQueue' \in Seq(Photos) /\ Len(receiptQueue') <= MaxReceipts
    BY <1>15 DEF FolderCrash
  <2> QED BY <1>15, <2>1 DEF FolderCrash, AtRest, Resting, FolderJobs, HashesTell, OnPc
<1>16. CASE UNCHANGED folderVars
  BY <1>16 DEF folderVars, HashesTell, OnPc
<1> QED
  BY <1>1, <1>2, <1>3, <1>4, <1>5, <1>6, <1>7, <1>8, <1>9, <1>10, <1>11, <1>12, <1>13,
     <1>14, <1>15, <1>16 DEF FolderNext

(* An acknowledged upload is in the picture folder, or was overwritten there *)
(* by the other writer between its look at the name and its move, whatever   *)
(* crashed, was sent twice or was replaced on the phone.                     *)
THEOREM UploadsSafe == FolderSpec => []UploadsAreSafe
<1>1. FolderInv => UploadsAreSafe BY DEF FolderInv
<1> QED BY FolderInitInv, FolderStep, <1>1, PTL DEF FolderSpec
=============================================================================
