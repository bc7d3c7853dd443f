------------------------------ MODULE MCRuntime ------------------------------
(***************************************************************************)
(* What the runtime checks for safety, side by side: the lanes of the      *)
(* command pipeline, the smart-plug group, the lesson recordings, the      *)
(* stored projects and, with a crash of the runtime, the camera imports.   *)
(* They share no state: a behaviour concerns one of them, chosen at the    *)
(* start.                                                                  *)
(*                                                                         *)
(* The lanes have two devices: three commands for the first, one a stop,   *)
(* and one for the second; and a heap shorter than the number of commands, *)
(* so that load is shed.  The two plugs play the same part; two orders may *)
(* be on their way, so that one of an earlier run may still be there when  *)
(* the next run is answered.                                               *)
(***************************************************************************)
EXTENDS LaneOrder, PlugGroup, LessonRecordings, ProjectFiles, CameraImports, TLC

VARIABLE facet
        \* "lanes", "plugs", "recordings", "projects" or "imports"

CONSTANTS d1, d2, move1, move2, stop1, other

MCTarget == (move1 :> d1) @@ (move2 :> d1) @@ (stop1 :> d1) @@ (other :> d2)
MCPriority == (move1 :> 6) @@ (move2 :> 6) @@ (stop1 :> 5) @@ (other :> 6)
MCDenials == {"DEVICE_OFFLINE", "DEVICE_LEASE_CONFLICT"}

mcVars == <<facet, orderVars, plugVars, recordingVars, projectVars, cameraVars>>

MCInit ==
    /\ facet \in {"lanes", "plugs", "recordings", "projects", "imports"}
    /\ OrderInit /\ PlugInit /\ RecordingsInit /\ ProjectInit /\ CameraInit
    /\ facet # "imports" => phone = "gone"

Lanes == facet = "lanes" /\ OrderNext
         /\ UNCHANGED <<facet, plugVars, recordingVars, projectVars, cameraVars>>
PlugSwitching == facet = "plugs" /\ PlugNext
         /\ UNCHANGED <<facet, orderVars, recordingVars, projectVars, cameraVars>>
Recording == facet = "recordings" /\ RecordingsNext
         /\ UNCHANGED <<facet, orderVars, plugVars, projectVars, cameraVars>>
ProjectSaving == facet = "projects" /\ ProjectNext
         /\ UNCHANGED <<facet, orderVars, plugVars, recordingVars, cameraVars>>
Importing == facet = "imports" /\ CameraNext
         /\ UNCHANGED <<facet, orderVars, plugVars, recordingVars, projectVars>>

MCNext == Lanes \/ PlugSwitching \/ Recording \/ ProjectSaving \/ Importing

PlugSymmetry == Permutations(Plugs)

MCSpec == MCInit /\ [][MCNext]_mcVars
=============================================================================
