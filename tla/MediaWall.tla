------------------------------- MODULE MediaWall -------------------------------
(***************************************************************************)
(* The camera wall: the latest-frame registry of the runtime               *)
(* (fabric_media.py, fabric_media_api.py) and the two publishers that feed *)
(* it, the Tello's (media.py of the tello adapter) and the RoboMaster's    *)
(* (media.py, with the camera pump of the vendor worker).  The registry    *)
(* lives in memory: a restart of the runtime empties it, and a publisher   *)
(* learns of it only from the 404 its next frame gets.  A publisher's HTTP *)
(* calls run in threads that a cancelled task cannot stop, so a call may   *)
(* reach the runtime after its adapter has gone.                           *)
(*                                                                         *)
(* A frame is named by the life of its source (the registration it belongs *)
(* to) and its sequence number; the code compares only the number.         *)
(***************************************************************************)
EXTENDS Naturals, FiniteSets

CONSTANTS Cameras,         \* media source ids, one publisher each
          Robots,          \* the cameras read through a RoboMaster worker
          Publishers,      \* identities an adapter may be launched with
          MediaLimit,      \* MAX_MEDIA_SOURCES
          MaxFrames,       \* bound: frames of one life of a source
          MaxDebt,         \* bound: how far a restarted pump is behind the cursor
          MaxMediaFaults   \* bound: restarts, stops, kills, failed calls

ASSUME MediaAssumption ==
  /\ Robots \subseteq Cameras
  /\ IsFiniteSet(Cameras)
  /\ MediaLimit \in Nat \ {0} /\ MaxFrames \in Nat \ {0}
  /\ MaxDebt \in Nat \ {0} /\ MaxMediaFaults \in Nat

VARIABLES wall,        \* the registry: _sources, by source id
          publisher,   \* the publisher task of each camera
          pump,        \* the capture thread of each RoboMaster worker
          cutCalls,    \* calls whose task is gone, still on their way
          cut,         \* cameras that may show a source nobody was left to take away
          detection,   \* the frame an analysis in progress was given
          lesson,      \* the activation file of the lesson is there
          lives,       \* registrations so far, to name them apart
          mediaFaults

wallVars   == <<wall, lives>>
mediaVars  == <<wall, publisher, pump, cutCalls, cut, detection, lesson, lives, mediaFaults>>

NoShot   == [life |-> 0, seq |-> 0]
NoSource == [owner |-> "nobody", life |-> 0, seq |-> 0, analysis |-> NoShot]
Off      == [at |-> "off", ident |-> "nobody", registered |-> FALSE,
             started |-> FALSE, read |-> FALSE, behind |-> FALSE]
NoPump   == [on |-> FALSE, fresh |-> FALSE, debt |-> 0]

Present  == {c \in Cameras : wall[c] # NoSource}
Shot(c)  == IF wall[c].seq = 0 THEN NoShot ELSE [life |-> wall[c].life, seq |-> wall[c].seq]

MediaInit ==
  /\ wall = [c \in Cameras |-> NoSource]
  /\ publisher = [c \in Cameras |-> Off]
  /\ pump = [c \in Robots |-> NoPump]
  /\ cutCalls = [c \in Cameras |-> {}]
  /\ cut = {}
  /\ detection = [c \in Cameras |-> NoShot]
  /\ lesson = FALSE
  /\ lives = [c \in Cameras |-> 0]
  /\ mediaFaults = 0

(***************************************************************************)
(* What a call does to the registry.                                       *)
(***************************************************************************)
RegisterRefused(c, i) ==
  \/ c \in Present /\ wall[c].owner # i
  \/ c \notin Present /\ Cardinality(Present) >= MediaLimit

\* register: a source that is there keeps its frame, analysis and sequence
Registered(c, i) ==
  IF c \in Present THEN UNCHANGED wallVars
  ELSE /\ lives' = [lives EXCEPT ![c] = @ + 1]
       /\ wall' = [wall EXCEPT ![c] =
                     [owner |-> i, life |-> lives[c] + 1, seq |-> 0, analysis |-> NoShot]]

\* publish_frame of a frame that keeps the analysis of the one before it
KeepsAnalysis(c) ==
  /\ wall[c].seq < MaxFrames
  /\ wall' = [wall EXCEPT ![c].seq = @ + 1]
  /\ UNCHANGED lives

Published(c) ==
  /\ wall[c].seq < MaxFrames
  /\ wall' = [wall EXCEPT ![c].seq = @ + 1, ![c].analysis = NoShot]
  /\ UNCHANGED lives

Removed(c) == wall' = [wall EXCEPT ![c] = NoSource] /\ UNCHANGED lives

(***************************************************************************)
(* The publisher task: run() of both publishers.                           *)
(***************************************************************************)
Goes(c, place) == publisher' = [publisher EXCEPT ![c].at = place]

CameraOff(c) == pump' = IF c \in Robots THEN [pump EXCEPT ![c] = NoPump] ELSE pump

\* the except branch, as it would be if it forgot what a 404 means
StaysRegistered(c, missing) ==
  /\ publisher' = [publisher EXCEPT ![c].at = "rest", ![c].started = FALSE]
  /\ CameraOff(c)

\* the except branch: a 404 forgets the registration, any error stops the camera
Errs(c, missing) ==
  /\ publisher' = [publisher EXCEPT ![c].at = "rest", ![c].started = FALSE,
                                    ![c].registered = @ /\ ~missing]
  /\ CameraOff(c)

AdapterStarts(c, i) ==
  /\ publisher[c].at = "off"
  /\ publisher' = [publisher EXCEPT ![c] = [Off EXCEPT !.at = "rest", !.ident = i]]
  /\ UNCHANGED <<wall, pump, cutCalls, cut, detection, lesson, lives, mediaFaults>>

\* the top of the loop; a Tello waits for the lesson's activation file
Round(c) ==
  /\ publisher[c].at = "rest"
  /\ c \in Robots \/ lesson
  /\ Goes(c, IF publisher[c].registered THEN "picture" ELSE "register")
  /\ UNCHANGED <<wall, pump, cutCalls, cut, detection, lesson, lives, mediaFaults>>

Register(c) ==
  LET i == publisher[c].ident IN
  /\ publisher[c].at = "register"
  /\ \/ /\ RegisterRefused(c, i)
        /\ Errs(c, FALSE) /\ UNCHANGED wallVars
     \/ /\ ~RegisterRefused(c, i)
        /\ Registered(c, i)
        /\ publisher' = [publisher EXCEPT ![c].at = "picture", ![c].registered = TRUE]
        /\ UNCHANGED pump
  /\ UNCHANGED <<cutCalls, cut, detection, lesson, mediaFaults>>

StreamPicture(c) ==
  /\ publisher[c].at = "picture" /\ c \notin Robots
  /\ Goes(c, "publish")
  /\ UNCHANGED <<wall, pump, cutCalls, cut, detection, lesson, lives, mediaFaults>>

\* camera_start: the pump counts its frames from nothing again, while the
\* publisher goes on asking for a number beyond the last it read: its debt
StartCamera(c) ==
  /\ publisher[c].at = "picture" /\ c \in Robots
  /\ ~publisher[c].started /\ ~publisher[c].behind
  /\ publisher' = [publisher EXCEPT ![c].started = TRUE]
  /\ \E debt \in IF publisher[c].read THEN 1..MaxDebt ELSE {0} :
       pump' = [pump EXCEPT ![c] = [on |-> TRUE, fresh |-> FALSE, debt |-> debt]]
  /\ UNCHANGED <<wall, cutCalls, cut, detection, lesson, lives, mediaFaults>>

\* the pump's count as it would be if every frame paid, owed or not
Overpaid(c) == [pump[c] EXCEPT !.debt = @ - 1, !.fresh = TRUE]

Captured(c) == IF pump[c].debt > 0 THEN [pump[c] EXCEPT !.debt = @ - 1]
                                   ELSE [pump[c] EXCEPT !.fresh = TRUE]

Capture(c) ==
  /\ pump[c].on /\ ~pump[c].fresh
  /\ pump' = [pump EXCEPT ![c] = Captured(c)]
  /\ UNCHANGED <<wall, publisher, cutCalls, cut, detection, lesson, lives, mediaFaults>>

\* camera_frame(after_sequence=_vendor_sequence): only a later number is a frame
RobotPicture(c) ==
  /\ publisher[c].at = "picture" /\ publisher[c].started /\ ~publisher[c].behind
  /\ \/ /\ pump[c].fresh
        /\ publisher' = [publisher EXCEPT ![c].read = TRUE, ![c].at = "publish"]
        /\ pump' = [pump EXCEPT ![c].fresh = FALSE]
     \/ /\ ~pump[c].fresh
        /\ Goes(c, "rest") /\ UNCHANGED pump
  /\ UNCHANGED <<wall, cutCalls, cut, detection, lesson, lives, mediaFaults>>

\* A request of the adapter, the camera's or the robot's, is given up: its
\* answer stays in the worker's pipe, and every later request reads the answer
\* of the one before it, until the process is replaced.
WorkerFallsBehind(c) ==
  /\ mediaFaults < MaxMediaFaults /\ mediaFaults' = mediaFaults + 1
  /\ publisher[c].at # "off" /\ ~publisher[c].behind
  /\ publisher' = [publisher EXCEPT ![c].behind = TRUE]
  /\ UNCHANGED <<wall, pump, cutCalls, cut, detection, lesson, lives>>

\* camera_start and camera_frame of a worker that is behind: the answer is
\* another request's
PictureRefused(c) ==
  /\ publisher[c].at = "picture" /\ publisher[c].behind
  /\ Errs(c, FALSE)
  /\ UNCHANGED <<wall, cutCalls, cut, detection, lesson, lives, mediaFaults>>

Publish(c) ==
  /\ publisher[c].at = "publish"
  /\ \/ /\ c \notin Present
        /\ Errs(c, TRUE) /\ UNCHANGED wallVars
     \/ /\ c \in Present /\ wall[c].owner # publisher[c].ident
        /\ Errs(c, FALSE) /\ UNCHANGED wallVars
     \/ /\ c \in Present /\ wall[c].owner = publisher[c].ident
        /\ Published(c)
        /\ Goes(c, "rest") /\ UNCHANGED pump
  /\ UNCHANGED <<cutCalls, cut, detection, lesson, mediaFaults>>

\* a call that raises, whether or not the runtime carried it out; at "picture",
\* a worker that answers with an error, or the Tello's stream
CallFails(c) ==
  /\ mediaFaults < MaxMediaFaults /\ mediaFaults' = mediaFaults + 1
  /\ publisher[c].at \in {"register", "picture", "publish"}
  /\ Errs(c, FALSE)
  /\ \/ UNCHANGED wallVars
     \/ /\ publisher[c].at = "register" /\ ~RegisterRefused(c, publisher[c].ident)
        /\ Registered(c, publisher[c].ident)
     \/ /\ publisher[c].at = "publish" /\ c \in Present
        /\ wall[c].owner = publisher[c].ident /\ Published(c)
  /\ cut' = IF publisher[c].at = "register" THEN cut \cup {c} ELSE cut
  /\ UNCHANGED <<cutCalls, detection, lesson>>

(***************************************************************************)
(* The end of an adapter: the task is cancelled or the process is killed.  *)
(***************************************************************************)
InFlight(c) == {call \in {"register", "publish"} : call = publisher[c].at}

\* the finally block, as it would be without the DELETE
NeverTidies(c) == publisher[c].registered /\ publisher[c].at = "publish"

Tidies(c) == publisher[c].registered

AdapterStops(c) ==
  /\ mediaFaults < MaxMediaFaults /\ mediaFaults' = mediaFaults + 1
  /\ publisher[c].at \notin {"off", "remove"}
  /\ cutCalls' = [cutCalls EXCEPT ![c] = @ \cup {<<call, publisher[c].ident>> : call \in InFlight(c)}]
  /\ cut' = IF publisher[c].at = "register" THEN cut \cup {c} ELSE cut
  /\ publisher' = [publisher EXCEPT ![c].at = IF Tidies(c) THEN "remove" ELSE "off",
                                    ![c].started = FALSE]
  /\ CameraOff(c)
  /\ UNCHANGED <<wall, detection, lesson, lives>>

\* _remove: a 404 is fine, a source of another owner is left alone
RemoveSource(c) ==
  /\ publisher[c].at = "remove"
  /\ IF wall[c].owner = publisher[c].ident THEN Removed(c) ELSE UNCHANGED wallVars
  /\ cut' = IF cutCalls[c] = {} /\ c \notin Present' THEN cut \ {c} ELSE cut
  /\ Goes(c, "off")
  /\ UNCHANGED <<pump, cutCalls, detection, lesson, mediaFaults>>

\* the stop that led to it was counted
RemoveFails(c) ==
  /\ publisher[c].at = "remove"
  /\ cut' = cut \cup {c}
  /\ Goes(c, "off")
  /\ UNCHANGED <<wall, pump, cutCalls, detection, lesson, lives, mediaFaults>>

AdapterKilled(c) ==
  /\ mediaFaults < MaxMediaFaults /\ mediaFaults' = mediaFaults + 1
  /\ publisher[c].at # "off"
  /\ cut' = cut \cup {c}
  /\ publisher' = [publisher EXCEPT ![c] = Off]
  /\ CameraOff(c)
  /\ UNCHANGED <<wall, cutCalls, detection, lesson, lives>>

\* the thread of a cancelled call ends: the runtime carries it out, or never sees it
CutCall(c) ==
  \E call \in cutCalls[c] :
    /\ cutCalls' = [cutCalls EXCEPT ![c] = @ \ {call}]
    /\ \/ UNCHANGED wallVars
       \/ /\ call[1] = "register" /\ ~RegisterRefused(c, call[2])
          /\ Registered(c, call[2])
       \/ /\ call[1] = "publish" /\ c \in Present /\ wall[c].owner = call[2]
          /\ Published(c)
    /\ UNCHANGED <<publisher, pump, cut, detection, lesson, mediaFaults>>

(***************************************************************************)
(* The runtime: analysis of the latest frame, removal by a tutor, restart. *)
(***************************************************************************)
AnalyzeBegins(c) ==
  /\ detection[c] = NoShot /\ Shot(c) # NoShot
  /\ detection' = [detection EXCEPT ![c] = Shot(c)]
  /\ UNCHANGED <<wall, publisher, pump, cutCalls, cut, lesson, lives, mediaFaults>>

\* the comparison of analyze, as it would be if any frame would do
AnyFrame(c) == Shot(c) # NoShot

StillLatest(c) == Shot(c) # NoShot /\ wall[c].seq = detection[c].seq

AnalyzeEnds(c) ==
  /\ detection[c] # NoShot
  /\ wall' = IF StillLatest(c) THEN [wall EXCEPT ![c].analysis = detection[c]] ELSE wall
  /\ detection' = [detection EXCEPT ![c] = NoShot]
  /\ UNCHANGED <<publisher, pump, cutCalls, cut, lesson, lives, mediaFaults>>

TutorRemoves(c) ==
  /\ mediaFaults < MaxMediaFaults /\ mediaFaults' = mediaFaults + 1
  /\ c \in Present
  /\ Removed(c)
  /\ UNCHANGED <<publisher, pump, cutCalls, cut, detection, lesson>>

RuntimeRestarts ==
  /\ mediaFaults < MaxMediaFaults /\ mediaFaults' = mediaFaults + 1
  /\ wall' = [c \in Cameras |-> NoSource]
  /\ detection' = [c \in Cameras |-> NoShot]
  /\ UNCHANGED <<publisher, pump, cutCalls, cut, lesson, lives>>

Lesson ==
  /\ lesson' = ~lesson
  /\ UNCHANGED <<wall, publisher, pump, cutCalls, cut, detection, lives, mediaFaults>>

PublisherStep(c) ==
  Round(c) \/ Register(c) \/ StreamPicture(c) \/ StartCamera(c) \/ RobotPicture(c)
    \/ PictureRefused(c) \/ Publish(c) \/ RemoveSource(c)

MediaNext ==
  \/ Lesson \/ RuntimeRestarts
  \/ \E c \in Robots : Capture(c) \/ WorkerFallsBehind(c)
  \/ \E c \in Cameras :
       \/ \E i \in Publishers : AdapterStarts(c, i)
       \/ PublisherStep(c)
       \/ CallFails(c) \/ AdapterStops(c) \/ RemoveFails(c) \/ AdapterKilled(c)
       \/ CutCall(c) \/ AnalyzeBegins(c) \/ AnalyzeEnds(c) \/ TutorRemoves(c)

\* The publisher task is scheduled, its calls have timeouts, the pump is a
\* thread: each goes on.  Nothing makes a lesson start or an adapter run.
MediaFairness ==
  /\ \A c \in Cameras : WF_mediaVars(PublisherStep(c))
  /\ \A c \in Robots : WF_mediaVars(Capture(c))

MediaSpec == MediaInit /\ [][MediaNext]_mediaVars /\ MediaFairness

(***************************************************************************)
(* Properties.                                                             *)
(***************************************************************************)
Shots == [life : 0..MaxMediaFaults + 1, seq : 0..MaxFrames]

\* The registry, the publishers and the camera pumps hold values of their
\* types, no more sources than the limit, and a pump owes no fewer than none.
MediaTypeOK ==
  /\ wall \in [Cameras -> [owner : Publishers \cup {"nobody"}, life : Nat,
                           seq : 0..MaxFrames, analysis : Shots]]
  /\ Cardinality(Present) <= MediaLimit
  /\ publisher \in [Cameras ->
       [at : {"off", "rest", "register", "picture", "publish", "remove"},
        ident : Publishers \cup {"nobody"}, registered : BOOLEAN, started : BOOLEAN,
        read : BOOLEAN, behind : BOOLEAN]]
  /\ pump \in [Robots -> [on : BOOLEAN, fresh : BOOLEAN, debt : 0..MaxDebt]]
  /\ cutCalls \in [Cameras -> SUBSET ({"register", "publish"} \X Publishers)]
  /\ cut \subseteq Cameras
  /\ detection \in [Cameras -> Shots]
  /\ lesson \in BOOLEAN
  /\ lives \in [Cameras -> Nat]
  /\ mediaFaults \in 0..MaxMediaFaults

\* The analysis shown with a frame is the analysis of that frame, however
\* long the detector took, unless the source was registered anew meanwhile
\* (fabric_media.py:272: only the sequence numbers are compared).
AnalysisIsOfFrame ==
  \A c \in Present :
    LET a == wall[c].analysis IN
    a # NoShot /\ a.life = wall[c].life => a = Shot(c)

\* An adapter that ended by itself took its source off the wall: one that is
\* still there belongs to a running publisher, or to one that was killed,
\* failed to reach the runtime, or was cancelled inside its registration.
LeftOnlyIfCut ==
  \A c \in Present : publisher[c].at = "off" => c \in cut

\* A publisher that keeps running during a lesson gets its camera back on the
\* wall, with a frame, after every restart of the runtime, every removal and
\* every failed call, but for a request to the RoboMaster's worker that was
\* given up: it leaves the camera out until the adapter's process is replaced
\* (backend.py:414-433, no request reads past an answer that came late).
CamerasComeBack ==
  \A c \in Cameras :
    []<>(\/ publisher[c].at \in {"off", "remove"} \/ publisher[c].behind
         \/ ~lesson \/ Shot(c) # NoShot)

\* The wall shows frames with their own analysis, of cameras that are there.
WallIsTrue ==
  [](MediaTypeOK /\ AnalysisIsOfFrame /\ LeftOnlyIfCut) /\ CamerasComeBack
================================================================================
