---------------------------- MODULE CameraImports ----------------------------
(***************************************************************************)
(* The camera import services: one per camera, each with at most one       *)
(* import task, a snapshot people poll, and a loop that starts imports by  *)
(* itself; and the one Android phone all of them automate over USB.  An    *)
(* import waits in its thread for the phone, changes the phone's settings, *)
(* works through the camera's app and puts the settings back.  A service   *)
(* has a lock of its own, held across a probe of the phone; the phone has  *)
(* one lock for all cameras.                                               *)
(***************************************************************************)
EXTENDS Naturals

CONSTANTS
    Cameras,
    Automatic,       \* the cameras that also import by themselves
    NoCamera,
    MaxImportCrashes

ASSUME CameraAssumption ==
    /\ NoCamera \notin Cameras
    /\ Automatic \subseteq Cameras
    /\ MaxImportCrashes \in Nat

VARIABLES
    phone,           \* ready, low (its battery blocks imports), or gone: its
                     \* commands do nothing, and are answered by nothing or too late
    settings,        \* stay-awake and overlay settings: the user's or ours
    phoneLock,       \* the camera whose import automates the phone
    restore,         \* the settings each import will put back
    import,          \* how far each camera's import task is
    conclusion,      \* how each import ended, until its task shows it
    shown,           \* the state in each camera's snapshot
    serviceBusy,     \* what a service holds its own lock for
    probed,          \* what its probe saw of the phone
    loop,            \* the automatic loop: asleep, or awaiting its import
    noted,           \* activity since the loop last looked, if there is a loop
    disturbed,       \* history: settings could not be put back
    importCrashes

cameraVars == <<phone, settings, phoneLock, restore, import, conclusion, shown,
                serviceBusy, probed, loop, noted, disturbed, importCrashes>>

Settings == [stayOn : {"user", "usb", "off"}, overlay : {"on", "off"}]
Users == [stayOn |-> "user", overlay |-> "on"]

\* What an import remembers of them.
Remembered == [stayOn : {"user", "usb", "off", "unread"}, overlay : {"on", "off"}]

Steps == {"none", "queued", "checking", "reading", "looking", "covering", "waking", "working",
          "stayOn", "overlay", "ended", "after"}

\* What an import shows when it is over; "failed" also stands for a set-up step
\* that is required and for the camera's own battery, which are treated alike.
Results == {"completed", "failed"}

CameraInit ==
    /\ phone \in {"ready", "gone"}
    /\ settings = Users
    /\ phoneLock = NoCamera
    /\ restore = [c \in Cameras |-> Users]
    /\ import = [c \in Cameras |-> "none"]
    /\ conclusion = [c \in Cameras |-> "none"]
    /\ shown = [c \in Cameras |-> "unavailable"]
    /\ serviceBusy = [c \in Cameras |-> "no"]
    /\ probed = [c \in Cameras |-> "gone"]
    /\ loop = [c \in Cameras |-> "asleep"]
    /\ noted = [c \in Cameras |-> FALSE]
    /\ disturbed = FALSE
    /\ importCrashes = 0

importVars == <<phoneLock, restore, conclusion, settings, disturbed>>
snapshotVars == <<shown, serviceBusy, probed>>
loopVars == <<loop, noted>>

PhoneChanges ==
    /\ phone' \in {"ready", "low", "gone"} \ {phone}
    /\ UNCHANGED <<importVars, import, snapshotVars, loopVars, importCrashes>>

-----------------------------------------------------------------------------
(* The service: snapshots, starts and the automatic loop. *)

AsSeen(state, saw) == IF state = "active" THEN "active" ELSE saw

\* _apply_probe. A blocked battery is deferred, and no other error is forgotten.
Applied(state, saw) ==
    CASE state = "active" -> "active"
      [] state # "active" /\ saw = "low" -> "deferredPhone"
      [] state # "active" /\ saw = "gone" -> "unavailable"
      [] OTHER -> IF state \in Results
                  THEN state ELSE "ready"

\* snapshot(refresh): only while no import runs.
PollBegins(c) ==
    /\ serviceBusy[c] = "no"
    /\ import[c] = "none"
    /\ serviceBusy' = [serviceBusy EXCEPT ![c] = "poll"]
    /\ probed' = [probed EXCEPT ![c] = phone]
    /\ UNCHANGED <<phone, importVars, import, shown, loopVars, importCrashes>>

\* start_import, on request or from the loop, which then waits for the import.
StartBegins(c, by) ==
    /\ serviceBusy[c] = "no"
    /\ import[c] = "none"
    /\ by = "loop" => c \in Automatic /\ loop[c] = "asleep" /\ ~noted[c]
    /\ serviceBusy' = [serviceBusy EXCEPT ![c] = by]
    /\ probed' = [probed EXCEPT ![c] = phone]
    /\ noted' = [noted EXCEPT ![c] = c \in Automatic]
    /\ UNCHANGED <<phone, importVars, import, shown, loop, importCrashes>>

\* The loop wakes, finds that something was started meanwhile, and sleeps on.
LoopSleepsOn(c) ==
    /\ c \in Automatic /\ loop[c] = "asleep" /\ noted[c]
    /\ serviceBusy[c] # "loop"
    /\ noted' = [noted EXCEPT ![c] = FALSE]
    /\ UNCHANGED <<phone, importVars, import, snapshotVars, loop, importCrashes>>

\* The probe is answered and applied; a start then refuses or begins the task.
ProbeEnds(c) ==
    LET starts == serviceBusy[c] # "poll" /\ probed[c] = "ready" IN
    /\ serviceBusy[c] # "no"
    /\ serviceBusy' = [serviceBusy EXCEPT ![c] = "no"]
    /\ shown' = [shown EXCEPT ![c] = IF starts THEN "active" ELSE Applied(@, probed[c])]
    /\ import' = [import EXCEPT ![c] = IF starts THEN "queued" ELSE @]
    /\ loop' = [loop EXCEPT ![c] = IF starts /\ serviceBusy[c] = "loop" THEN "awaiting" ELSE @]
    /\ probed' = [probed EXCEPT ![c] = "gone"]
    /\ UNCHANGED <<phone, importVars, noted, importCrashes>>

LoopGoesOn(c) ==
    /\ loop[c] = "awaiting" /\ import[c] = "none"
    /\ loop' = [loop EXCEPT ![c] = "asleep"]
    /\ noted' = [noted EXCEPT ![c] = FALSE]
    /\ UNCHANGED <<phone, importVars, import, snapshotVars, importCrashes>>

-----------------------------------------------------------------------------
(* The import, in its thread. *)

AnyTurn == TRUE

PhoneFree == phoneLock = NoCamera

StillHeld == phoneLock

\* The lock is released however the import ends.
Released == NoCamera

\* SynchronizedCameraImporter: one import automates the phone at a time.
TakePhone(c) ==
    /\ import[c] = "queued"
    /\ PhoneFree
    /\ phoneLock' = c
    /\ import' = [import EXCEPT ![c] = "checking"]
    /\ UNCHANGED <<phone, restore, conclusion, settings, disturbed, snapshotVars, loopVars,
                   importCrashes>>

\* The app is there, and the battery not low: it passes unread, too, when the
\* phone is lost once the app was found.
CheckPasses(c) ==
    /\ import[c] = "checking" /\ phone # "low"
    /\ import' = [import EXCEPT ![c] = "reading"]
    /\ UNCHANGED <<phone, importVars, snapshotVars, loopVars, importCrashes>>

\* No app, a low battery, or no answer in time: it ends before anything is changed.
CheckFails(c) ==
    /\ \/ import[c] \in {"checking", "reading", "looking"} /\ phone = "gone"
       \/ import[c] = "checking" /\ phone = "low"
    /\ conclusion' = [conclusion EXCEPT ![c] = IF phone = "low" THEN "deferredPhone"
                                               ELSE "failed"]
    /\ import' = [import EXCEPT ![c] = "ended"]
    /\ phoneLock' = Released
    /\ restore' = [restore EXCEPT ![c] = Users]
    /\ UNCHANGED <<phone, settings, disturbed, snapshotVars, loopVars, importCrashes>>

\* The settings are read unchecked: a lost phone has none.
ReadStayOn(c) ==
    /\ import[c] = "reading"
    /\ restore' = [restore EXCEPT ![c].stayOn = IF phone = "gone" THEN "unread"
                                               ELSE settings.stayOn]
    /\ import' = [import EXCEPT ![c] = "looking"]
    /\ UNCHANGED <<phone, phoneLock, conclusion, settings, disturbed, snapshotVars, loopVars,
                   importCrashes>>

ReadOverlay(c) ==
    /\ import[c] = "looking"
    /\ restore' = [restore EXCEPT ![c].overlay = IF phone = "gone" THEN "off"
                                                ELSE settings.overlay]
    /\ import' = [import EXCEPT ![c] = "covering"]
    /\ UNCHANGED <<phone, phoneLock, conclusion, settings, disturbed, snapshotVars, loopVars,
                   importCrashes>>

\* So are the commands that change them: on a lost phone they do nothing.
HideOverlay(c) ==
    /\ import[c] = "covering"
    /\ settings' = IF phone = "gone" \/ restore[c].overlay = "off" THEN settings
                   ELSE [settings EXCEPT !.overlay = "off"]
    /\ import' = [import EXCEPT ![c] = "waking"]
    /\ UNCHANGED <<phone, phoneLock, restore, conclusion, disturbed, snapshotVars, loopVars,
                   importCrashes>>

StayAwake(c) ==
    /\ import[c] = "waking"
    /\ settings' = IF phone = "gone" THEN settings ELSE [settings EXCEPT !.stayOn = "usb"]
    /\ import' = [import EXCEPT ![c] = "working"]
    /\ UNCHANGED <<phone, phoneLock, restore, conclusion, disturbed, snapshotVars, loopVars,
                   importCrashes>>

\* Such a command is not answered in time.
PrepareTimesOut(c) ==
    /\ import[c] \in {"covering", "waking"} /\ phone = "gone"
    /\ conclusion' = [conclusion EXCEPT ![c] = "failed"]
    /\ import' = [import EXCEPT ![c] = "stayOn"]
    /\ UNCHANGED <<phone, phoneLock, restore, settings, disturbed, snapshotVars, loopVars,
                   importCrashes>>

\* Connecting, selecting, transferring and copying end with one result.
WorkEnds(c, result) ==
    /\ import[c] = "working"
    /\ result = "completed" => phone # "gone"
    /\ conclusion' = [conclusion EXCEPT ![c] = result]
    /\ import' = [import EXCEPT ![c] = "stayOn"]
    /\ UNCHANGED <<phone, phoneLock, restore, settings, disturbed, snapshotVars, loopVars,
                   importCrashes>>

\* The two commands that put the settings back do nothing on a lost phone, and
\* a setting that was not read is not the user's again.
RestoreStayOn(c) ==
    /\ import[c] = "stayOn"
    /\ settings' = IF phone = "gone" THEN settings
                   ELSE [settings EXCEPT !.stayOn = IF restore[c].stayOn = "unread" THEN "off"
                                                    ELSE restore[c].stayOn]
    /\ disturbed' = (disturbed \/ phone = "gone" \/ restore[c].stayOn = "unread")
    /\ import' = [import EXCEPT ![c] = "overlay"]
    /\ UNCHANGED <<phone, phoneLock, restore, conclusion, snapshotVars, loopVars,
                   importCrashes>>

\* Only an overlay that was on is put back on.
RestoreOverlay(c) ==
    /\ import[c] = "overlay"
    /\ settings' = IF phone = "gone" \/ restore[c].overlay = "off" THEN settings
                   ELSE [settings EXCEPT !.overlay = "on"]
    /\ disturbed' = (disturbed \/ (phone = "gone" /\ restore[c].overlay = "on"))
    /\ import' = [import EXCEPT ![c] = "ended"]
    /\ phoneLock' = Released
    /\ restore' = [restore EXCEPT ![c] = Users]
    /\ UNCHANGED <<phone, conclusion, snapshotVars, loopVars, importCrashes>>

\* Such a command is not answered in time: the rest is not put back either,
\* and the import has failed whatever its result was.
RestoreTimesOut(c) ==
    /\ \/ import[c] = "stayOn"
       \/ import[c] = "overlay" /\ restore[c].overlay = "on"
    /\ conclusion' = [conclusion EXCEPT ![c] = "failed"]
    /\ disturbed' = TRUE
    /\ import' = [import EXCEPT ![c] = "ended"]
    /\ phoneLock' = Released
    /\ restore' = [restore EXCEPT ![c] = Users]
    /\ UNCHANGED <<phone, settings, snapshotVars, loopVars, importCrashes>>

DeferredUnsaid(c) == IF conclusion[c] = "deferredPhone" THEN shown[c] ELSE conclusion[c]

Concluded(c) == conclusion[c]

\* The task shows the conclusion, and is not over until its last callback is.
ShowOutcome(c) ==
    /\ import[c] = "ended"
    /\ shown' = [shown EXCEPT ![c] = Concluded(c)]
    /\ noted' = [noted EXCEPT ![c] = c \in Automatic]
    /\ import' = [import EXCEPT ![c] = "after"]
    /\ conclusion' = [conclusion EXCEPT ![c] = "none"]
    /\ UNCHANGED <<phone, phoneLock, restore, settings, disturbed, serviceBusy, probed, loop,
                   importCrashes>>

AfterImport(c) ==
    /\ import[c] = "after"
    /\ import' = [import EXCEPT ![c] = "none"]
    /\ UNCHANGED <<phone, importVars, snapshotVars, loopVars, importCrashes>>

ImportCrash ==
    /\ importCrashes < MaxImportCrashes
    /\ importCrashes' = importCrashes + 1
    /\ disturbed' = (disturbed \/ phoneLock # NoCamera)
    /\ phoneLock' = NoCamera
    /\ import' = [c \in Cameras |-> "none"]
    /\ shown' = [c \in Cameras |-> "unavailable"]
    /\ serviceBusy' = [c \in Cameras |-> "no"]
    /\ loop' = [c \in Cameras |-> "asleep"]
    /\ noted' = [c \in Cameras |-> FALSE]
    /\ restore' = [c \in Cameras |-> Users]
    /\ conclusion' = [c \in Cameras |-> "none"]
    /\ probed' = [c \in Cameras |-> "gone"]
    /\ UNCHANGED <<phone, settings>>

ImportGoesOn(c) ==
    \/ TakePhone(c) \/ CheckPasses(c) \/ CheckFails(c)
    \/ ReadStayOn(c) \/ ReadOverlay(c)
    \/ HideOverlay(c) \/ StayAwake(c) \/ PrepareTimesOut(c)
    \/ \E result \in Results : WorkEnds(c, result)
    \/ RestoreStayOn(c) \/ RestoreOverlay(c) \/ RestoreTimesOut(c)
    \/ ShowOutcome(c) \/ AfterImport(c)

CameraNext ==
    \/ PhoneChanges \/ ImportCrash
    \/ \E c \in Cameras : \/ PollBegins(c) \/ ProbeEnds(c) \/ LoopSleepsOn(c) \/ LoopGoesOn(c)
                          \/ \E by \in {"request", "loop"} : StartBegins(c, by)
                          \/ ImportGoesOn(c)

\* A loop whose interval is over gets its turn at last, and so does an import
\* that waits for the phone.
CameraFairness ==
    /\ \A c \in Cameras : WF_cameraVars(ProbeEnds(c)) /\ WF_cameraVars(ImportGoesOn(c))
    /\ \A c \in Automatic : /\ WF_cameraVars(LoopSleepsOn(c) \/ LoopGoesOn(c))
                            /\ SF_cameraVars(StartBegins(c, "loop"))
                            /\ SF_cameraVars(TakePhone(c))

CameraSpec == CameraInit /\ [][CameraNext]_cameraVars /\ CameraFairness

-----------------------------------------------------------------------------
(* A snapshot shows one of the states an import or a probe can leave.       *)
CameraTypeOK ==
    /\ phone \in {"ready", "low", "gone"}
    /\ settings \in Settings /\ restore \in [Cameras -> Remembered]
    /\ phoneLock \in Cameras \cup {NoCamera}
    /\ import \in [Cameras -> Steps]
    /\ conclusion \in [Cameras -> Results \cup {"none", "deferredPhone"}]
    /\ shown \in [Cameras -> Results \cup {"unavailable", "ready", "active", "deferredPhone"}]
    /\ serviceBusy \in [Cameras -> {"no", "poll", "request", "loop"}]
    /\ probed \in [Cameras -> {"ready", "low", "gone"}]
    /\ loop \in [Cameras -> {"asleep", "awaiting"}]
    /\ noted \in [Cameras -> BOOLEAN]
    /\ disturbed \in BOOLEAN /\ importCrashes \in 0..MaxImportCrashes

(* A phone no import holds has its user's settings again, however the       *)
(* imports of the cameras that share it were interleaved and ended, lost    *)
(* phones during their preparation and their work included: only a crash,   *)
(* and a phone that is lost or silent while they are put back, or that was  *)
(* lost when its stay-awake setting was read and came back, keep them from  *)
(* the user.                                                                *)
SettingsGivenBack == phoneLock = NoCamera /\ ~disturbed => settings = Users

(* A snapshot shows an import at work exactly while the service has one in  *)
(* its thread: a poll that was probing when a start came, a second start    *)
(* and the last callback of a task never make it show a task that is over   *)
(* or hide one that is not.                                                 *)
ShownWhileImporting ==
    \A c \in Cameras : shown[c] = "active" <=> import[c] \notin {"none", "after"}

(* While the phone stays ready, imports of an automatic camera never stop   *)
(* for good: no refused start, import of the rival, poll or failure ends    *)
(* the loop or leaves an import waiting for the phone for ever.             *)
AutomaticImportsGoOn ==
    \A c \in Automatic : <>[](phone = "ready") => []<>(import[c] = "working")

(* The safety of imports that share a phone: the phone's settings and what  *)
(* the console shows, with crashes and lost phones.                         *)
ImportsAreSafe == CameraTypeOK /\ SettingsGivenBack /\ ShownWhileImporting
=============================================================================
