------------------------------ MODULE MCCameras ------------------------------
(***************************************************************************)
(* Three services for tutors that share no state: the camera imports,      *)
(* which share one phone, the picture folder its two writers share, and    *)
(* the printer with its confirmed starts.  A behaviour concerns one of     *)
(* them, chosen at the start.                                              *)
(***************************************************************************)
EXTENDS CameraFolder, CameraImports, PrinterJobs, TLC

VARIABLE facet           \* "folder", "imports" or "printer"

CONSTANTS pa, pb, n1

MCNameOf == pa :> n1 @@ pb :> n1

MCInit ==
    /\ facet \in {"folder", "imports", "printer"}
    /\ FolderInit /\ CameraInit /\ PrinterInit
    /\ facet # "imports" => phone = "gone"
    /\ facet # "printer" => printer = "standby"

Folder(step) == facet = "folder" /\ step /\ UNCHANGED <<facet, cameraVars, printerVars>>
Imports(step) == facet = "imports" /\ step /\ UNCHANGED <<facet, folderVars, printerVars>>
Printing == facet = "printer" /\ PrinterNext /\ UNCHANGED <<facet, folderVars, cameraVars>>

MCNext == Folder(FolderNext) \/ Imports(CameraNext) \/ Printing

mcVars == <<facet, folderVars, cameraVars, printerVars>>

\* The fairness of each specification, for the behaviours about it. Strong
\* fairness is asked of one action of each at a time.
MCFairness ==
    /\ \A p \in Photos : WF_folderVars(facet = "folder" /\ BeginUpload(p))
    /\ WF_folderVars(facet = "folder" /\ (TakeReceipt \/ ChoosePlace \/ Publish))
    /\ WF_folderVars(facet = "folder" /\ uploader.step = "waiting" /\ EndUpload)
    /\ \A c \in Cameras : /\ WF_cameraVars(facet = "imports" /\ ProbeEnds(c))
                          /\ WF_cameraVars(facet = "imports" /\ ImportGoesOn(c))
    /\ \A c \in Automatic :
          /\ WF_cameraVars(facet = "imports" /\ (LoopSleepsOn(c) \/ LoopGoesOn(c)))
          /\ SF_mcVars(Folder(UploadPart \/ UploadReceipt) \/ Imports(StartBegins(c, "loop")))
          /\ SF_mcVars(Folder(Acknowledge) \/ Imports(TakePhone(c)))

MCSpec == MCInit /\ [][MCNext]_mcVars /\ MCFairness
=============================================================================
